---------------------------- MODULE Spec2Model ----------------------------
(***************************************************************************)
(* Symbolic model of the chainofproduct envelope library                   *)
(* (src/chainofproduct/library.py over src/chainofproduct/crypto.py).      *)
(*                                                                         *)
(* Values.  A Python `bytes` value is a sequence of atoms; an atom is a    *)
(* tagged tuple (<<"sha256", data>>, <<"sig", k, msg>>, ...), so that      *)
(* concatenation (ciphertext + tag) is \o and b"" is <<>>.  A Python `str` *)
(* holding base64 text is <<"b64", form, bytes>>: form 0 is the text b64e  *)
(* produces, form 1 is another text that the lenient urlsafe_b64decode     *)
(* maps to the same bytes (unused trailing bits, ignored characters).      *)
(* Other strings are <<"s", text>> or <<"uuid", n>>; Python None is        *)
(* <<"none">>.  Company and section names, which are used as dict keys,    *)
(* are plain strings.  A dict is a function with a string domain; None in  *)
(* the place of a dict is NoDict, and None in the place of a list or of a  *)
(* dict that is only tested for truth is the empty one.                    *)
(* A call that may raise returns [ok, err, val].                           *)
(***************************************************************************)
EXTENDS Integers, Sequences, FiniteSets, TLC

\* ------------------------------------------------------------------ bounds

\* how many share-issuing calls a behaviour may make
MaxShareCalls == 1
\* how many envelope fields a behaviour may replace after protect
MaxTamper == 1
\* how many rows the disclosure tracker's table may reach
MaxDisclosures == 2
\* POST /transactions requests served at a time
MaxRequests == 2
\* share records the registry stores
MaxShares == 2

\* ------------------------------------------------------------ basic values

None == <<"none">>
NoName == "<absent>"

Ok(v) == [ok |-> TRUE, err |-> "", val |-> v]
Err(e) == [ok |-> FALSE, err |-> e, val |-> None]

S(text) == <<"s", text>>

\* Python truthiness of an optional str: None and "" are falsy.
Truthy(s) == s # None /\ s # S("") /\ s # <<"b64", 0, <<>>>>

\* dict.get(k) with default None
Get(d, k) == IF k \in DOMAIN d THEN d[k] ELSE None

\* Python None where a dict is expected, and the empty dict {}
NoDict == [none |-> TRUE]
EmptyDict == [x \in {} |-> None]

\* ------------------------------------------------------------- crypto.py

b64e(data) == <<"b64", 0, data>>

\* urlsafe_b64decode: total on base64 text, whatever its form; raises on
\* text that is not base64 (bad padding) and on None.
b64d(s) ==
  IF s = None THEN Err("AttributeError")
  ELSE IF s[1] = "b64" THEN Ok(s[3])
  ELSE Err("binascii.Error")

\* The same bytes in a different base64 text.
Reencode(s) == <<"b64", 1 - s[2], s[3]>>

\* key material (PEM bytes): k is the key pair's number
SigPriv(k) == <<"ed25519-priv", k>>
SigPub(k) == <<"ed25519-pub", k>>
EncPriv(k) == <<"x25519-priv", k>>
EncPub(k) == <<"x25519-pub", k>>

hash_bytes(data) == << <<"sha256", data>> >>

\* the message is signed under a key other than the caller's
sign_wrong_key(priv, message) ==
  IF priv[1] = "ed25519-priv" THEN Ok(<< <<"sig", 0, message>> >>)
  ELSE Err("AttributeError")

sign(priv, message) ==
  IF priv[1] = "ed25519-priv" THEN Ok(<< <<"sig", priv[2], message>> >>)
  ELSE Err("AttributeError")

\* any signature over the message is accepted, whoever made it
verify_any_signer(pub, message, signature) ==
  IF pub = None THEN Err("TypeError")
  ELSE IF pub[1] = "ed25519-pub"
       THEN Ok(Len(signature) = 1 /\ signature[1][1] = "sig"
               /\ signature[1][3] = message)
       ELSE Ok(FALSE)

\* The key is loaded outside the try block; every failure of pub.verify
\* (including a key object without a verify for this signature) is False.
verify(pub, message, signature) ==
  IF pub = None THEN Err("TypeError")
  ELSE IF pub[1] = "ed25519-pub"
       THEN Ok(signature = << <<"sig", pub[2], message>> >>)
       ELSE Ok(FALSE)

\* the 16-byte GCM tag, as two halves
GcmTag(key, nonce, aad, ct) ==
  << <<"gmac-hi", key, nonce, aad, ct>>, <<"gmac-lo", key, nonce, aad, ct>> >>

\* r numbers the call that draws the randomness
encrypt_aes_gcm(key, plaintext, aad, r) ==
  LET nonce == << <<"rand", r, "nonce">> >>
      ct == << <<"ctr", key, nonce, plaintext>> >>
  IN  [ciphertext |-> ct, tag |-> GcmTag(key, nonce, aad, ct), nonce |-> nonce]

AesGcmOpen(key, nonce, data, aad) ==
  IF Len(data) < 2 THEN Err("InvalidTag")
  ELSE LET ct == SubSeq(data, 1, Len(data) - 2)
           tg == SubSeq(data, Len(data) - 1, Len(data))
       IN  IF Len(nonce) = 0 THEN Err("ValueError")
           ELSE IF tg = GcmTag(key, nonce, aad, ct)
                   /\ Len(ct) = 1 /\ ct[1][1] = "ctr"
                THEN Ok(ct[1][4])
                ELSE Err("InvalidTag")

decrypt_aes_gcm(key, ciphertext, tag, nonce, aad) ==
  AesGcmOpen(key, nonce, ciphertext \o tag, aad)

\* HKDF-SHA256 of the X25519 secret shared by ephemeral key e and key pair k
derive_wrap_key(e, k) == << <<"hkdf-x25519", e, k>> >>

\* the 32 raw bytes of ephemeral public key e; X25519 does not read the top
\* bit of the last byte, which is `top` here
RawPublic(e, top) == << <<"x25519-raw", e, top>> >>

\* the JSON text of a wrapped-key payload; form tells texts of one payload
\* apart (spacing, key order)
WrapJson(payload, form) == << <<"wrapjson", form, payload>> >>

\* AESGCM(key).encrypt(nonce, data, None): ciphertext and tag in one piece
WrapSeal(key, nonce, data) == << <<"sealed", key, nonce, data>> >>

\* AESGCM(key).decrypt(nonce, sealed, None)
WrapOpen(key, nonce, sealed) ==
  IF /\ Len(sealed) = 1 /\ sealed[1][1] = "sealed"
     /\ sealed[1][2] = key /\ sealed[1][3] = nonce
  THEN Ok(sealed[1][4])
  ELSE Err("InvalidTag")

\* the key is returned whichever private key is presented
unwrap_key_any(recipient_priv, wrapped) ==
  IF Len(wrapped) = 1 /\ wrapped[1][1] = "wrapjson"
     /\ b64d(wrapped[1][3].ciphertext).ok
     /\ Len(b64d(wrapped[1][3].ciphertext).val) = 1
     /\ b64d(wrapped[1][3].ciphertext).val[1][1] = "sealed"
  THEN Ok(b64d(wrapped[1][3].ciphertext).val[1][4])
  ELSE Err("InvalidTag")

\* r and slot number the ephemeral key pair and the nonce the call draws
wrap_key(recipient_pub, symmetric_key, r, slot) ==
  IF recipient_pub[1] # "x25519-pub" THEN Err("TypeError")
  ELSE LET e == <<"rand", r, slot>>
           wrap_key_bytes == derive_wrap_key(e, recipient_pub[2])
           nonce == << <<"rand", r, slot, "nonce">> >>
           ct == WrapSeal(wrap_key_bytes, nonce, symmetric_key)
       IN  Ok(WrapJson([ ephemeral_public |-> b64e(RawPublic(e, 0)),
                         nonce |-> b64e(nonce),
                         ciphertext |-> b64e(ct) ], 0))

unwrap_key(recipient_priv, wrapped) ==
  IF recipient_priv[1] # "x25519-priv" THEN Err("AttributeError")
  ELSE IF Len(wrapped) # 1 \/ wrapped[1][1] # "wrapjson" THEN Err("JSONDecodeError")
  ELSE LET payload == wrapped[1][3]
           raw == b64d(payload.ephemeral_public)
           nonce == b64d(payload.nonce)
           ct == b64d(payload.ciphertext)
       IN  IF ~raw.ok THEN raw
           ELSE IF Len(raw.val) # 1 \/ raw.val[1][1] # "x25519-raw"
                THEN Err("ValueError")
           ELSE IF ~nonce.ok THEN nonce
           ELSE IF ~ct.ok THEN ct
           ELSE WrapOpen(derive_wrap_key(raw.val[1][2], recipient_priv[2]),
                         nonce.val, ct.val)


\* ------------------------------------------------------------ documents

JStr(text) == <<"str", text>>
JInt(n) == <<"int", n>>

Digits == <<"0", "1", "2", "3", "4", "5", "6", "7", "8", "9">>

\* str(v) of a JSON scalar (ints of the model are single digits)
PyStrOf(v) == IF v[1] = "str" THEN S(v[2]) ELSE S(Digits[v[2] + 1])

\* every dict key of the model, in the order sort_keys puts them
KeyOrder ==
  << "amount", "ek_to", "from_company", "id", "layer_hash", "route",
     "section", "timestamp", "to_company", "tx_id" >>

RECURSIVE SortedItems(_, _)
SortedItems(obj, ks) ==
  IF ks = <<>> THEN <<>>
  ELSE (IF Head(ks) \in DOMAIN obj THEN << <<Head(ks), obj[Head(ks)]>> >> ELSE <<>>)
       \o SortedItems(obj, Tail(ks))

\* a serializer that stops after the first item
canonical_bytes_truncated(obj) ==
  << <<"json", SubSeq(SortedItems(obj, KeyOrder), 1, 1)>> >>

\* json.dumps(obj, sort_keys=True, separators=(",", ":")).encode("utf-8")
canonical_bytes(obj) == << <<"json", SortedItems(obj, KeyOrder)>> >>

\* json.loads(plaintext.decode("utf-8"))
json_loads(data) ==
  IF Len(data) = 1 /\ data[1][1] = "json"
  THEN LET items == data[1][2]
       IN  Ok([k \in {items[i][1] : i \in DOMAIN items} |->
                  (CHOOSE it \in {items[i] : i \in DOMAIN items} : it[1] = k)[2]])
  ELSE Err("JSONDecodeError")

\* A Python value of the JSON data model as the program holds it: a scalar
\* (JStr, JInt), a list <<"list", elements>>, or a dict <<"dict", items>> whose
\* items are <<key, value>> pairs in insertion order, no key twice.
PyList(elems) == <<"list", elems>>
PyDict(items) == <<"dict", items>>

\* dict items as they were inserted: what json.dumps writes without sort_keys
InsertionOrder(items, ks) == items

\* dict items in the order sort_keys=True writes them
RECURSIVE SortItems(_, _)
SortItems(items, ks) ==
  IF ks = <<>> THEN <<>>
  ELSE SelectSeq(items, LAMBDA it : it[1] = Head(ks)) \o SortItems(items, Tail(ks))

RECURSIVE JoinTokens(_)
JoinTokens(parts) ==
  IF parts = <<>> THEN <<>>
  ELSE IF Len(parts) = 1 THEN parts[1]
  ELSE parts[1] \o << <<",">> >> \o JoinTokens(Tail(parts))

\* json.dumps(obj, sort_keys=True, separators=(",", ":")): the text, one
\* token per tuple
RECURSIVE canonical_text(_)
canonical_text(obj) ==
  IF obj[1] = "dict"
  THEN LET items == SortItems(obj[2], KeyOrder)
       IN  << <<"{">> >>
           \o JoinTokens([i \in DOMAIN items |->
                 << JStr(items[i][1]), <<":">> >> \o canonical_text(items[i][2])])
           \o << <<"}">> >>
  ELSE IF obj[1] = "list"
  THEN << <<"[">> >>
       \o JoinTokens([i \in DOMAIN obj[2] |-> canonical_text(obj[2][i])])
       \o << <<"]">> >>
  ELSE << obj >>

\* the JSON value a Python value denotes: an object is a map from its keys
RECURSIVE Denote(_)
Denote(obj) ==
  IF obj[1] = "dict"
  THEN <<"object", [k \in {obj[2][i][1] : i \in DOMAIN obj[2]} |->
                      Denote(obj[2][CHOOSE i \in DOMAIN obj[2] : obj[2][i][1] = k][2])]>>
  ELSE IF obj[1] = "list"
  THEN <<"array", [i \in DOMAIN obj[2] |-> Denote(obj[2][i])]>>
  ELSE obj

\* ------------------------------------------------------------ library.py

FixedMeta == [hash_alg |-> "sha256", cipher |-> "AES-256-GCM", wrap |-> "X25519+AESGCM"]

NameOr(keys, default) == IF keys.name = NoName THEN default ELSE keys.name

\* the same key whatever the call
FreshKey_constant(r) == << <<"rand", <<0, 0, "">>, "key">> >>

\* one key drawn per protect_with_layers call and used for every envelope of it
FreshKey_per_call(r) == << <<"rand", <<r[1], 0, "">>, "key">> >>

\* The symmetric key os.urandom(32) draws in call r.
FreshKey(r) == << <<"rand", r, "key">> >>

\* the associated data is left out
EnvelopeEncrypt_no_aad(sym_key, payload_bytes, hash_t, r) ==
  encrypt_aes_gcm(sym_key, payload_bytes, <<>>, r)

\* the envelope's encryption: hash_T goes in as associated data
EnvelopeEncrypt(sym_key, payload_bytes, hash_t, r) ==
  encrypt_aes_gcm(sym_key, payload_bytes, hash_t, r)

\* every envelope draws an identifier of its own instead of taking the one given
protect_envelope_random_tx(payload_bytes, seller_keys, buyer_keys, tx_id, meta_extra, r) ==
  LET hash_t == hash_bytes(payload_bytes)
      sym_key == FreshKey(r)
      enc == EnvelopeEncrypt(sym_key, payload_bytes, hash_t, r)
      ek_seller == wrap_key(seller_keys.encryption_public, sym_key, r, "eph-seller")
      ek_buyer == wrap_key(buyer_keys.encryption_public, sym_key, r, "eph-buyer")
      sig_seller == sign(seller_keys.signing_private, hash_t)
  IN  IF ~ek_seller.ok THEN ek_seller
      ELSE IF ~ek_buyer.ok THEN ek_buyer
      ELSE IF ~sig_seller.ok THEN sig_seller
      ELSE Ok([ tx_id |-> <<"uuid", r>>,
                ciphertext |-> b64e(enc.ciphertext),
                tag |-> b64e(enc.tag),
                nonce |-> b64e(enc.nonce),
                ek_map |-> (NameOr(buyer_keys, "buyer") :> b64e(ek_buyer.val))
                           @@ (NameOr(seller_keys, "seller") :> b64e(ek_seller.val)),
                hash_T |-> b64e(hash_t),
                sig_seller |-> b64e(sig_seller.val),
                sig_buyer |-> None,
                created_at |-> <<"time", r>>,
                meta |-> meta_extra @@ FixedMeta ])

protect_envelope(payload_bytes, seller_keys, buyer_keys, tx_id, meta_extra, r) ==
  LET hash_t == hash_bytes(payload_bytes)
      sym_key == FreshKey(r)
      enc == EnvelopeEncrypt(sym_key, payload_bytes, hash_t, r)
      ek_seller == wrap_key(seller_keys.encryption_public, sym_key, r, "eph-seller")
      ek_buyer == wrap_key(buyer_keys.encryption_public, sym_key, r, "eph-buyer")
      sig_seller == sign(seller_keys.signing_private, hash_t)
  IN  IF ~ek_seller.ok THEN ek_seller
      ELSE IF ~ek_buyer.ok THEN ek_buyer
      ELSE IF ~sig_seller.ok THEN sig_seller
      ELSE Ok([ tx_id |-> tx_id,
                ciphertext |-> b64e(enc.ciphertext),
                tag |-> b64e(enc.tag),
                nonce |-> b64e(enc.nonce),
                \* a dict display: on equal names the later (buyer) entry stays
                ek_map |-> (NameOr(buyer_keys, "buyer") :> b64e(ek_buyer.val))
                           @@ (NameOr(seller_keys, "seller") :> b64e(ek_seller.val)),
                hash_T |-> b64e(hash_t),
                sig_seller |-> b64e(sig_seller.val),
                sig_buyer |-> None,
                created_at |-> <<"time", r>>,
                meta |-> meta_extra @@ FixedMeta ])


protect(document, seller_keys, buyer_keys, c) ==
  LET tx_id == IF "id" \in DOMAIN document THEN PyStrOf(document["id"])
               ELSE <<"uuid", <<c, 0, "">>>>
  IN  protect_envelope(canonical_bytes(document), seller_keys, buyer_keys, tx_id,
                       EmptyDict, <<c, 0, "">>)

\* the seller's signature is not verified before signing
buyer_sign_unverified(protected_doc, buyer_keys, seller_public_signing) ==
  LET hash_t == b64d(protected_doc.hash_T)
      sig_buyer == sign(buyer_keys.signing_private, hash_t.val)
      raise(e) == e @@ [arg |-> protected_doc]
  IN  IF ~hash_t.ok THEN raise(hash_t)
      ELSE IF ~sig_buyer.ok THEN raise(sig_buyer)
      ELSE Ok([protected_doc EXCEPT !.sig_buyer = b64e(sig_buyer.val)])
           @@ [arg |-> protected_doc]

\* the signature is set on the caller's dict, which is returned
buyer_sign_in_place(protected_doc, buyer_keys, seller_public_signing) ==
  LET hash_t == b64d(protected_doc.hash_T)
      seller_sig == b64d(protected_doc.sig_seller)
      good == verify(seller_public_signing, hash_t.val, seller_sig.val)
      sig_buyer == sign(buyer_keys.signing_private, hash_t.val)
      signed == [protected_doc EXCEPT !.sig_buyer = b64e(sig_buyer.val)]
      raise(e) == e @@ [arg |-> protected_doc]
  IN  IF ~hash_t.ok THEN raise(hash_t)
      ELSE IF ~seller_sig.ok THEN raise(seller_sig)
      ELSE IF ~good.ok THEN raise(good)
      ELSE IF ~good.val THEN raise(Err("ValueError"))
      ELSE IF ~sig_buyer.ok THEN raise(sig_buyer)
      ELSE Ok(signed) @@ [arg |-> signed]

\* The result carries, besides the value returned or the error raised, the
\* caller's dict as the call leaves it (arg): the signature is set on a copy.
buyer_sign(protected_doc, buyer_keys, seller_public_signing) ==
  LET hash_t == b64d(protected_doc.hash_T)
      seller_sig == b64d(protected_doc.sig_seller)
      good == verify(seller_public_signing, hash_t.val, seller_sig.val)
      sig_buyer == sign(buyer_keys.signing_private, hash_t.val)
      raise(e) == e @@ [arg |-> protected_doc]
  IN  IF ~hash_t.ok THEN raise(hash_t)
      ELSE IF ~seller_sig.ok THEN raise(seller_sig)
      ELSE IF ~good.ok THEN raise(good)
      ELSE IF ~good.val THEN raise(Err("ValueError"))
      ELSE IF ~sig_buyer.ok THEN raise(sig_buyer)
      ELSE Ok([protected_doc EXCEPT !.sig_buyer = b64e(sig_buyer.val)])
           @@ [arg |-> protected_doc]

\* a company without an entry is given somebody's entry
select_wrapped_key_any(protected_doc, company_name, share_record, expected_section, expected_tx) ==
  IF share_record # NoDict /\ share_record # EmptyDict
  THEN b64d(share_record.ek_to)
  ELSE IF DOMAIN protected_doc.ek_map # {}
       THEN b64d(protected_doc.ek_map[CHOOSE n \in DOMAIN protected_doc.ek_map :
                   n = company_name \/ company_name \notin DOMAIN protected_doc.ek_map])
       ELSE Err("KeyError")

\* share_record is None or a dict; expected_section and expected_tx are
\* None or strings, and are tested for truth before they are compared.
select_wrapped_key(protected_doc, company_name, share_record, expected_section, expected_tx) ==
  IF share_record # NoDict /\ share_record # EmptyDict
  THEN IF Truthy(expected_section) /\ Get(share_record, "section") # expected_section
       THEN Err("KeyError")
       ELSE IF Truthy(expected_tx) /\ Get(share_record, "tx_id") # expected_tx
       THEN Err("KeyError")
       ELSE b64d(share_record.ek_to)
  ELSE IF company_name \in DOMAIN protected_doc.ek_map
       THEN b64d(protected_doc.ek_map[company_name])
       ELSE Err("KeyError")

decrypt_envelope(protected_doc, company_keys, company_name, share_record, expected_section, expected_tx) ==
  LET wrapped == select_wrapped_key(protected_doc, company_name, share_record,
                                    expected_section, expected_tx)
      sym_key == unwrap_key(company_keys.encryption_private, wrapped.val)
      ciphertext == b64d(protected_doc.ciphertext)
      tag == b64d(protected_doc.tag)
      nonce == b64d(protected_doc.nonce)
      hash_t == b64d(protected_doc.hash_T)
      plaintext == decrypt_aes_gcm(sym_key.val, ciphertext.val, tag.val, nonce.val,
                                   hash_t.val)
  IN  IF ~wrapped.ok THEN wrapped
      ELSE IF ~sym_key.ok THEN sym_key
      ELSE IF ~ciphertext.ok THEN ciphertext
      ELSE IF ~tag.ok THEN tag
      ELSE IF ~nonce.ok THEN nonce
      ELSE IF ~hash_t.ok THEN hash_t
      ELSE IF ~plaintext.ok THEN plaintext
      ELSE json_loads(plaintext.val)

unprotect(protected_doc, company_keys, company_name, share_record) ==
  decrypt_envelope(protected_doc, company_keys, company_name, share_record,
                   None, protected_doc.tx_id)

\* `a or b or "unknown"` over an optional argument and an optional name
FromName(from_company_name, keys) ==
  IF from_company_name # NoName /\ from_company_name # "" THEN from_company_name
  ELSE IF keys.name # NoName /\ keys.name # "" THEN keys.name
  ELSE "unknown"

\* the dict a share record is before it is signed, then with sig_share
SignedRecord(record, from_company_keys) ==
  LET sig_share == sign(from_company_keys.signing_private,
                        hash_bytes(canonical_bytes(record)))
  IN  IF ~sig_share.ok THEN sig_share
      ELSE Ok(record @@ [sig_share |-> b64e(sig_share.val)])

\* the key is wrapped for the issuer instead of the recipient
create_share_record_to_self(protected_doc, from_company_keys, to_company_name, to_company_public_enc, from_company_name, c) ==
  LET from_name == FromName(from_company_name, from_company_keys)
      wrapped == select_wrapped_key(protected_doc, from_name, NoDict, None, None)
      sym_key == unwrap_key(from_company_keys.encryption_private, wrapped.val)
      ek_to == wrap_key(from_company_keys.encryption_public, sym_key.val, <<c, 0, "">>,
                        "eph-share")
  IN  IF ~wrapped.ok THEN wrapped
      ELSE IF ~sym_key.ok THEN sym_key
      ELSE IF ~ek_to.ok THEN ek_to
      ELSE SignedRecord([ id |-> <<"uuid", <<c, 0, "">>>>,
                          tx_id |-> protected_doc.tx_id,
                          from_company |-> S(from_name),
                          to_company |-> S(to_company_name),
                          ek_to |-> b64e(ek_to.val),
                          timestamp |-> <<"time", <<c, 0, "">>>> ],
                        from_company_keys)

create_share_record(protected_doc, from_company_keys, to_company_name, to_company_public_enc, from_company_name, c) ==
  LET from_name == FromName(from_company_name, from_company_keys)
      wrapped == select_wrapped_key(protected_doc, from_name, NoDict, None, None)
      sym_key == unwrap_key(from_company_keys.encryption_private, wrapped.val)
      ek_to == wrap_key(to_company_public_enc, sym_key.val, <<c, 0, "">>, "eph-share")
  IN  IF ~wrapped.ok THEN wrapped
      ELSE IF ~sym_key.ok THEN sym_key
      ELSE IF ~ek_to.ok THEN ek_to
      ELSE SignedRecord([ id |-> <<"uuid", <<c, 0, "">>>>,
                          tx_id |-> protected_doc.tx_id,
                          from_company |-> S(from_name),
                          to_company |-> S(to_company_name),
                          ek_to |-> b64e(ek_to.val),
                          timestamp |-> <<"time", <<c, 0, "">>>> ],
                        from_company_keys)

\* fields the document does not have are left out of the slice
slice_document_lenient(document, fields) ==
  Ok([f \in {fields[i] : i \in DOMAIN fields} \cap DOMAIN document |-> document[f]])

\* the whole document is taken whatever the fields
slice_document_whole(document, fields) ==
  IF \E i \in DOMAIN fields : fields[i] \notin DOMAIN document
  THEN Err("KeyError")
  ELSE Ok(document)

slice_document(document, fields) ==
  IF \E i \in DOMAIN fields : fields[i] \notin DOMAIN document
  THEN Err("KeyError")
  ELSE Ok([f \in {fields[i] : i \in DOMAIN fields} |-> document[f]])

\* layers is a dict section -> field list; None and {} are both falsy
protect_with_layers(document, seller_keys, buyer_keys, layers, c) ==
  LET protected_doc == protect(document, seller_keys, buyer_keys, c)
      envelope(section) ==
        protect_envelope(canonical_bytes(slice_document(document, layers[section]).val),
                         seller_keys, buyer_keys, protected_doc.val.tx_id,
                         [section |-> section, fields |-> layers[section]],
                         <<c, 1, section>>)
  IN  IF ~protected_doc.ok THEN protected_doc
      ELSE IF DOMAIN layers = {} THEN protected_doc
      ELSE IF \E s \in DOMAIN layers : ~slice_document(document, layers[s]).ok
           THEN Err("KeyError")
      ELSE IF \E s \in DOMAIN layers : ~envelope(s).ok
           THEN Err("TypeError")
      ELSE Ok(protected_doc.val @@
              [layers |-> [s \in DOMAIN layers |-> envelope(s).val]])

\* protected_doc.get("layers") or {}
LayersOf(protected_doc) ==
  IF "layers" \in DOMAIN protected_doc THEN protected_doc.layers
  ELSE EmptyDict

unprotect_layer(protected_doc, company_keys, company_name, section, share_record) ==
  IF section \notin DOMAIN LayersOf(protected_doc) THEN Err("KeyError")
  ELSE decrypt_envelope(LayersOf(protected_doc)[section], company_keys, company_name,
                        share_record, S(section), protected_doc.tx_id)

layer_share_record(protected_doc, section, from_company_keys, to_company_name, to_company_public_enc, from_name, c) ==
  LET layer == LayersOf(protected_doc)[section]
      wrapped == select_wrapped_key(layer, from_name, NoDict, None, None)
      sym_key == unwrap_key(from_company_keys.encryption_private, wrapped.val)
      ek_to == wrap_key(to_company_public_enc, sym_key.val, <<c, 1, section>>, "eph-share")
  IN  IF ~wrapped.ok THEN wrapped
      ELSE IF ~sym_key.ok THEN sym_key
      ELSE IF ~ek_to.ok THEN ek_to
      ELSE SignedRecord([ id |-> <<"uuid", <<c, 1, section>>>>,
                          tx_id |-> protected_doc.tx_id,
                          section |-> S(section),
                          from_company |-> S(from_name),
                          to_company |-> S(to_company_name),
                          ek_to |-> b64e(ek_to.val),
                          timestamp |-> <<"time", <<c, 1, section>>>>,
                          layer_hash |-> layer.hash_T ],
                        from_company_keys)

\* sections the envelope does not have are passed over
create_layer_share_records_skip_missing(protected_doc, sections, from_company_keys, to_company_name, to_company_public_enc, from_company_name, c) ==
  LET from_name == FromName(from_company_name, from_company_keys)
      present == SelectSeq(sections, LAMBDA s : s \in DOMAIN LayersOf(protected_doc))
      rec(i) == layer_share_record(protected_doc, present[i], from_company_keys,
                                   to_company_name, to_company_public_enc, from_name, c)
  IN  IF \E i \in DOMAIN present : ~rec(i).ok
      THEN rec(CHOOSE i \in DOMAIN present :
                 ~rec(i).ok /\ \A j \in 1..(i - 1) : rec(j).ok)
      ELSE Ok([i \in DOMAIN present |-> rec(i).val])

\* the records come out in the reverse of the order requested
create_layer_share_records_reversed(protected_doc, sections, from_company_keys, to_company_name, to_company_public_enc, from_company_name, c) ==
  LET from_name == FromName(from_company_name, from_company_keys)
      n == Len(sections)
      rec(i) == layer_share_record(protected_doc, sections[n + 1 - i], from_company_keys,
                                   to_company_name, to_company_public_enc, from_name, c)
  IN  IF \E i \in DOMAIN sections : sections[i] \notin DOMAIN LayersOf(protected_doc)
      THEN Err("KeyError")
      ELSE IF \E i \in DOMAIN sections : ~rec(i).ok
      THEN rec(CHOOSE i \in DOMAIN sections :
                 ~rec(i).ok /\ \A j \in 1..(i - 1) : rec(j).ok)
      ELSE Ok([i \in DOMAIN sections |-> rec(i).val])

\* sections is a sequence; the result is the list of records, or the first error
create_layer_share_records(protected_doc, sections, from_company_keys, to_company_name, to_company_public_enc, from_company_name, c) ==
  LET from_name == FromName(from_company_name, from_company_keys)
      rec(i) == layer_share_record(protected_doc, sections[i], from_company_keys,
                                   to_company_name, to_company_public_enc, from_name, c)
  IN  IF \E i \in DOMAIN sections : sections[i] \notin DOMAIN LayersOf(protected_doc)
      THEN Err("KeyError")
      ELSE IF \E i \in DOMAIN sections : ~rec(i).ok
      THEN rec(CHOOSE i \in DOMAIN sections :
                 ~rec(i).ok /\ \A j \in 1..(i - 1) : rec(j).ok)
      ELSE Ok([i \in DOMAIN sections |-> rec(i).val])

\* a record is valid as soon as a key is registered for its issuer
share_entry_unverified(protected_doc, rec, share_public_keys) ==
  LET from_company == Get(rec, "from_company")
      known == /\ DOMAIN share_public_keys # {}
               /\ from_company # None
               /\ from_company[2] \in DOMAIN share_public_keys
  IN  Ok([id |-> Get(rec, "id"), from_company |-> from_company, valid |-> known])

\* a record whose issuer has no registered key is an error
share_entry_strict(protected_doc, rec, share_public_keys) ==
  LET from_company == Get(rec, "from_company")
      known == /\ DOMAIN share_public_keys # {}
               /\ from_company # None
               /\ from_company[2] \in DOMAIN share_public_keys
  IN  IF known
      THEN Ok([id |-> Get(rec, "id"), from_company |-> from_company, valid |-> TRUE])
      ELSE Err("KeyError")

\* a record is valid only for the envelope of its tx_id
share_entry_same_tx(protected_doc, rec, share_public_keys) ==
  LET from_company == Get(rec, "from_company")
      pub == IF from_company # None /\ from_company[2] \in DOMAIN share_public_keys
             THEN share_public_keys[from_company[2]] ELSE None
      sig_share == b64d(Get(rec, "sig_share"))
      rec_copy == [k \in DOMAIN rec \ {"sig_share"} |-> rec[k]]
      valid == verify(pub, hash_bytes(canonical_bytes(rec_copy)), sig_share.val)
  IN  IF DOMAIN share_public_keys = {} \/ pub = None
      THEN Ok([id |-> Get(rec, "id"), from_company |-> from_company, valid |-> FALSE])
      ELSE IF "sig_share" \notin DOMAIN rec THEN Err("KeyError")
      ELSE IF ~sig_share.ok THEN sig_share
      ELSE IF ~valid.ok THEN valid
      ELSE Ok([id |-> Get(rec, "id"), from_company |-> from_company,
               valid |-> valid.val /\ Get(rec, "tx_id") = Get(protected_doc, "tx_id")])

\* one entry of the report's "shares" list; share_public_keys is a dict from
\* company name to public signing key, empty when None or {} is passed
share_entry(protected_doc, rec, share_public_keys) ==
  LET section == Get(rec, "section")
      layer == IF Truthy(section) /\ section[2] \in DOMAIN LayersOf(protected_doc)
               THEN Get(LayersOf(protected_doc)[section[2]], "hash_T")
               ELSE None
      base == [id |-> Get(rec, "id"), from_company |-> Get(rec, "from_company")]
      entry == IF Truthy(section)
               THEN base @@ [ section |-> section,
                              layer_hash_ok |-> IF Truthy(layer)
                                                THEN Get(rec, "layer_hash") = layer
                                                ELSE FALSE ]
               ELSE base
      from_company == Get(rec, "from_company")
      pub == IF from_company # None /\ from_company[2] \in DOMAIN share_public_keys
             THEN share_public_keys[from_company[2]] ELSE None
      sig_share == b64d(Get(rec, "sig_share"))
      rec_copy == [k \in DOMAIN rec \ {"sig_share"} |-> rec[k]]
      valid == verify(pub, hash_bytes(canonical_bytes(rec_copy)), sig_share.val)
  IN  IF DOMAIN share_public_keys = {} \/ pub = None
      THEN Ok(entry @@ [valid |-> FALSE])
      ELSE IF "sig_share" \notin DOMAIN rec THEN Err("KeyError")
      ELSE IF ~sig_share.ok THEN sig_share
      ELSE IF ~valid.ok THEN valid
      ELSE Ok(entry @@ [valid |-> valid.val])

\* buyer_sig_ok of the report: None, or a boolean wrapped as <<"bool", b>>
Bool(b) == <<"bool", b>>

check_buyer(protected_doc, hash_t, buyer_public_signing) ==
  LET sig_buyer_b64 == Get(protected_doc, "sig_buyer")
      sig_buyer == b64d(sig_buyer_b64)
      good == verify(buyer_public_signing, hash_t, sig_buyer.val)
  IN  IF Truthy(sig_buyer_b64) /\ buyer_public_signing # None
      THEN IF ~sig_buyer.ok THEN sig_buyer
           ELSE IF ~good.ok THEN good
           ELSE Ok(Bool(good.val))
      ELSE IF Truthy(sig_buyer_b64) THEN Ok(Bool(FALSE))
      ELSE Ok(None)

\* share_records is a sequence of records, empty when None or [] is passed
check(protected_doc, seller_public_signing, buyer_public_signing, share_records, share_public_keys) ==
  LET hash_t == b64d(protected_doc.hash_T)
      seller_sig == b64d(protected_doc.sig_seller)
      seller_ok == verify(seller_public_signing, hash_t.val, seller_sig.val)
      buyer_ok == check_buyer(protected_doc, hash_t.val, buyer_public_signing)
      recs == share_records
      entry(i) == share_entry(protected_doc, recs[i], share_public_keys)
  IN  IF ~hash_t.ok THEN hash_t
      ELSE IF ~seller_sig.ok THEN seller_sig
      ELSE IF ~seller_ok.ok THEN seller_ok
      ELSE IF ~buyer_ok.ok THEN buyer_ok
      ELSE IF \E i \in DOMAIN recs : ~entry(i).ok
      THEN entry(CHOOSE i \in DOMAIN recs :
                   ~entry(i).ok /\ \A j \in 1..(i - 1) : entry(j).ok)
      ELSE Ok([ seller_sig_ok |-> seller_ok.val,
                buyer_sig_ok |-> buyer_ok.val,
                shares |-> [i \in DOMAIN recs |-> entry(i).val] ])

\* ------------------------------------------------------------ app/main.py

\* json.dumps of a dict with string keys, and json.loads of the text it gives
json_dumps(v) == <<"jsontext", v>>
json_loads_text(text) == text[2]

TxFields ==
  {"tx_id", "ciphertext", "tag", "nonce", "ek_map", "hash_T", "sig_seller",
   "sig_buyer", "meta", "created_at"}

\* the request model: the declared fields of the body, absent optional ones
\* None; what else the body carries is not kept
TransactionIn(body) ==
  [f \in TxFields |-> IF f \in DOMAIN body THEN body[f]
                     ELSE IF f = "meta" THEN NoDict ELSE None]

Response(status, body) == [status |-> status, body |-> body]

\* the row create_transaction stores for a payload
TransactionRecord(payload) ==
  [ tx_id |-> payload.tx_id,
    ciphertext |-> payload.ciphertext,
    tag |-> payload.tag,
    nonce |-> payload.nonce,
    ek_map |-> json_dumps(payload.ek_map),
    hash_T |-> payload.hash_T,
    sig_seller |-> payload.sig_seller,
    sig_buyer |-> payload.sig_buyer,
    meta |-> IF payload.meta # NoDict /\ payload.meta # EmptyDict
             THEN json_dumps(payload.meta) ELSE None,
    created_at |-> payload.created_at,
    layers |-> None ]

\* db.query(TransactionRecord).filter(tx_id == ...).first(): the rows of the
\* table that have this tx_id, in the order they were committed
RowsOf(table, tx_id) == SelectSeq(table, LAMBDA row : row.tx_id = tx_id)

\* db.add(tx); db.commit() on a table without the unique constraint
insert_row_no_unique(table, row) == Ok(Append(table, row))

\* db.add(tx); db.commit(): tx_id is unique=True, so the commit of a second
\* row with a tx_id raises and stores nothing
insert_row(table, row) ==
  IF RowsOf(table, row.tx_id) # <<>> THEN Err("IntegrityError")
  ELSE Ok(Append(table, row))

\* the response and the table after POST /transactions
create_transaction(table, body) ==
  LET payload == TransactionIn(body)
      stored == insert_row(table, TransactionRecord(payload))
  IN  IF RowsOf(table, payload.tx_id) # <<>>
      THEN [resp |-> Response(400, [detail |-> S("Transaction already exists")]),
            table |-> table]
      ELSE IF ~stored.ok
      THEN [resp |-> Response(500, [detail |-> S("Internal Server Error")]),
            table |-> table]
      ELSE [resp |-> Response(200, [status |-> S("stored"), tx_id |-> payload.tx_id]),
            table |-> stored.val]

tx_to_dict(tx) ==
  [ tx_id |-> tx.tx_id,
    ciphertext |-> tx.ciphertext,
    tag |-> tx.tag,
    nonce |-> tx.nonce,
    ek_map |-> json_loads_text(tx.ek_map),
    hash_T |-> tx.hash_T,
    sig_seller |-> tx.sig_seller,
    sig_buyer |-> tx.sig_buyer,
    meta |-> IF tx.meta # None THEN json_loads_text(tx.meta) ELSE NoDict,
    created_at |-> tx.created_at ]

\* the response to GET /transactions/{tx_id}
get_transaction(table, tx_id) ==
  IF RowsOf(table, tx_id) = <<>>
  THEN Response(404, [detail |-> S("Transaction not found")])
  ELSE Response(200, tx_to_dict(RowsOf(table, tx_id)[1]))

\* the response and the table after POST /transactions/{tx_id}/buyer_sign
add_buyer_signature(table, tx_id, sig_buyer) ==
  IF RowsOf(table, tx_id) = <<>>
  THEN [resp |-> Response(404, [detail |-> S("Transaction not found")]),
        table |-> table]
  ELSE LET first == CHOOSE i \in DOMAIN table :
                      /\ table[i].tx_id = tx_id
                      /\ \A j \in 1..(i - 1) : table[j].tx_id # tx_id
       IN  [resp |-> Response(200, [status |-> S("buyer_signed"), tx_id |-> tx_id]),
            table |-> [table EXCEPT ![first].sig_buyer = sig_buyer]]


ShareInFields ==
  {"id", "tx_id", "from_company", "to_company", "ek_to", "timestamp", "sig_share"}

\* the request model of a share: seven required strings; what else the body
\* carries is not kept
ShareIn(body) ==
  IF \A f \in ShareInFields : f \in DOMAIN body /\ body[f] # None
  THEN Ok([f \in ShareInFields |-> body[f]])
  ELSE Err("ValidationError")

\* the response and the shares table after POST /transactions/{tx_id}/share;
\* id is the primary key, so a second row of an id fails at the commit
add_share_record(txs, table, tx_id, body) ==
  LET payload == ShareIn(body)
  IN  IF ~payload.ok
      THEN [resp |-> Response(422, [detail |-> S("ValidationError")]), table |-> table]
      ELSE IF RowsOf(txs, tx_id) = <<>>
      THEN [resp |-> Response(404, [detail |-> S("Transaction not found")]),
            table |-> table]
      ELSE IF \E i \in DOMAIN table : table[i].id = payload.val.id
      THEN [resp |-> Response(500, [detail |-> S("Internal Server Error")]),
            table |-> table]
      ELSE [resp |-> Response(200, [status |-> S("share_stored"), id |-> payload.val.id]),
            table |-> Append(table, payload.val)]

share_to_dict(s) == [f \in ShareInFields |-> s[f]]

\* the response to GET /transactions/{tx_id}/shares
list_shares(table, tx_id) ==
  LET found == SelectSeq(table, LAMBDA s : s.tx_id = tx_id)
  IN  Response(200, [i \in DOMAIN found |-> share_to_dict(found[i])])

\* --------------------------------------------- disclosure_service/main.py

DisclosureFields ==
  {"id", "tx_id", "section", "from_company", "to_company", "ek_to", "timestamp",
   "layer_hash", "sig_share"}

\* the request model: every declared field is required and is a string
DisclosureIn(body) ==
  IF DisclosureFields \subseteq DOMAIN body /\ \A f \in DisclosureFields : body[f] # None
  THEN Ok([f \in DisclosureFields |-> body[f]])
  ELSE Err("ValidationError")

\* a record of an id already there takes the place of the old one
add_disclosure_upsert(table, body) ==
  LET payload == DisclosureIn(body)
  IN  IF ~payload.ok
      THEN [resp |-> Response(422, [detail |-> S("validation")]), table |-> table]
      ELSE IF \E i \in DOMAIN table : table[i].id = payload.val.id
      THEN [resp |-> Response(200, [status |-> S("recorded"), id |-> payload.val.id]),
            table |-> [i \in DOMAIN table |->
                         IF table[i].id = payload.val.id THEN payload.val ELSE table[i]]]
      ELSE [resp |-> Response(200, [status |-> S("recorded"), id |-> payload.val.id]),
            table |-> Append(table, payload.val)]

\* the response and the table after POST /disclosures
add_disclosure(table, body) ==
  LET payload == DisclosureIn(body)
  IN  IF ~payload.ok
      THEN [resp |-> Response(422, [detail |-> S("validation")]), table |-> table]
      ELSE IF \E i \in DOMAIN table : table[i].id = payload.val.id
      THEN [resp |-> Response(400, [detail |-> S("Disclosure already exists")]),
            table |-> table]
      ELSE [resp |-> Response(200, [status |-> S("recorded"), id |-> payload.val.id]),
            table |-> Append(table, payload.val)]

\* the response to GET /disclosures/{tx_id}[?section=...]; section is None
\* when the parameter is not given, and is tested for truth
list_disclosures(table, tx_id, section) ==
  LET match(rec) == /\ rec.tx_id = tx_id
                    /\ (Truthy(section) => rec.section = section)
  IN  Response(200, SelectSeq(table, match))

\* ------------------------------------------------------- the test bench

\* keymanager.load_company_keys: the dict of a company's PEM keys
Company(name, k) ==
  [ name |-> name,
    signing_private |-> SigPriv(k), signing_public |-> SigPub(k),
    encryption_private |-> EncPriv(k), encryption_public |-> EncPub(k) ]

Seller1 == Company("seller", 1)
Buyer2 == Company("buyer", 2)
Auditor == Company("auditor", 3)
\* a second company that was also registered under the name "seller"
Seller4 == Company("seller", 4)

\* (seller, buyer) pairs protect is called with
Pairs == { <<Seller1, Buyer2>>, <<Seller1, Seller4>> }

Names == {"seller", "buyer", "auditor"}

Docs ==
  { [id |-> JStr("tx1"), amount |-> JInt(1), route |-> JStr("A")],
    [id |-> JInt(5), amount |-> JInt(2), route |-> JStr("B")],
    [amount |-> JInt(1)],
    [id |-> JStr(""), amount |-> JInt(3), route |-> JStr("C")] }

TwoLayers == [pricing |-> <<"amount">>, logistics |-> <<"route">>]
\* a layering one of whose sections has the empty name
EdgeLayers == ("" :> <<"route">>) @@ ("pricing" :> <<"amount">>)
LayerChoices == {EmptyDict, TwoLayers, EdgeLayers}
Sections == {"pricing", "logistics", ""}
SectionLists == { <<"pricing">>, <<"logistics">>, <<"pricing", "logistics">>, <<"">> }

VARIABLES
  pc,        \* "draft", "protected", or "raised" when protect raised
  document,  \* the arguments of protect_with_layers
  seller,
  buyer,
  layers,
  prot,      \* the envelope as protect_with_layers returned it
  env,       \* the envelope as it is now (countersigned, altered in transit)
  ntamper,   \* how many replacements were made in transit
  shares,    \* the share records the auditor holds, as issued or rewritten
  issued,    \* how, by whom and with what content they were issued
  nshare,    \* how many share-issuing calls were made
  call,      \* the call in progress: its arguments and its result
  db,        \* the registry's transactions table: its rows as committed
  posted,    \* tx_id -> the envelope the registry was sent, with the buyer
             \* signature sent for it since
  disclosures, \* the disclosure tracker's table, in insertion order
  sharetab,  \* the registry's shares table, in insertion order, and the
             \* request each row was stored by
  reqs,      \* the POST /transactions requests being served concurrently
  cl         \* the workflow clients: where each run is and what it holds

vars == <<pc, document, seller, buyer, layers, prot, env, ntamper, shares, issued,
          nshare, call, db, posted, disclosures, sharetab, reqs, cl>>

NoCall == [op |-> "none"]
NoRequests == <<>>
NoShares == [rows |-> <<>>, sent |-> <<>>]
NoRuns ==
  [ seller |-> [at |-> "idle", status |-> 0],
    buyer |-> [at |-> "idle", tx |-> NoDict, plain |-> NoDict, signed |-> NoDict,
               share_with |-> "", log |-> <<>>],
    third |-> [at |-> "idle", tx |-> NoDict, after_share |-> FALSE,
               report |-> NoDict, plain |-> NoDict] ]
NotIssued == [kind |-> "none", by |-> "", key |-> None, records |-> <<>>,
              sections |-> <<>>, signed |-> FALSE, rewritten |-> FALSE]

Parties == {seller, buyer, Auditor}

Init ==
  /\ pc = "draft"
  /\ document \in Docs
  /\ \E p \in Pairs : seller = p[1] /\ buyer = p[2]
  /\ layers \in LayerChoices
  /\ prot = NoDict
  /\ env = NoDict
  /\ ntamper = 0
  /\ shares = <<>>
  /\ issued = NotIssued
  /\ nshare = 0
  /\ call = NoCall
  /\ db = <<>>
  /\ posted = EmptyDict
  /\ disclosures = <<>>
  /\ sharetab = NoShares
  /\ reqs = NoRequests
  /\ cl = NoRuns

Protect ==
  /\ pc = "draft"
  /\ call = NoCall
  /\ LET out == protect_with_layers(document, seller, buyer, layers, 0)
     IN  /\ call' = [op |-> "protect", out |-> out]
         /\ pc' = IF out.ok THEN "protected" ELSE "raised"
         /\ prot' = IF out.ok THEN out.val ELSE prot
         /\ env' = IF out.ok THEN out.val ELSE env
  /\ UNCHANGED <<disclosures, sharetab, reqs, cl, db, posted, document, seller, buyer, layers, ntamper, shares, issued, nshare>>

BuyerSign(pub) ==
  /\ pc = "protected"
  /\ call = NoCall
  /\ LET out == buyer_sign(env, buyer, pub)
     IN  /\ call' = [op |-> "buyer_sign", in |-> env, pub |-> pub, out |-> out]
         /\ env' = IF out.ok THEN out.val ELSE out.arg
         \* until it is countersigned or altered, env is the very dict protect returned
         /\ prot' = IF env = prot THEN out.arg ELSE prot
  /\ UNCHANGED <<disclosures, sharetab, reqs, cl, db, posted, pc, document, seller, buyer, layers, ntamper, shares, issued, nshare>>

\* what a field of the envelope can be replaced by on the way
Junk == << <<"junk", 0>> >>
NotBase64 == <<"not-base64", 0, <<>>>>
TamperFields ==
  {"ciphertext", "tag", "nonce", "hash_T", "sig_seller", "sig_buyer", "ek_map",
   "created_at"}

\* a timestamp protect did not put there
OtherTime == <<"time", <<9, 0, "">>>>

\* what the map of wrapped keys can be replaced by: no entries, junk entries,
\* the same wrapped keys in another base64 text, the entries exchanged
EkMapValues(e) ==
  LET m == e.ek_map
  IN  {EmptyDict, [n \in DOMAIN m |-> b64e(Junk)]}
      \cup (IF \A n \in DOMAIN m : m[n][1] = "b64"
            THEN {[n \in DOMAIN m |-> Reencode(m[n])]} ELSE {})
      \cup {[n \in DOMAIN m |-> m[CHOOSE o \in DOMAIN m : o # n \/ DOMAIN m = {n}]]}

Spliced(e, who) ==
  LET h == b64d(e.hash_T)
  IN  IF h.ok THEN {b64e(sign(who.signing_private, h.val).val)} ELSE {}

TamperValues(e, f) ==
  IF f = "ek_map" THEN EkMapValues(e) ELSE
  IF f = "created_at" THEN {OtherTime} ELSE
  (IF e[f] # None /\ e[f][1] = "b64" THEN {Reencode(e[f])} ELSE {})
  \cup {b64e(Junk), NotBase64}
  \cup (IF f = "hash_T" THEN {b64e(hash_bytes(Junk))} ELSE {})
  \cup (IF f = "ciphertext" /\ b64d(e.ciphertext).ok /\ b64d(e.tag).ok
           /\ Len(b64d(e.tag).val) > 0
        THEN {b64e(b64d(e.ciphertext).val \o <<b64d(e.tag).val[1]>>)} ELSE {})
  \cup (IF f = "tag" /\ b64d(e.tag).ok /\ Len(b64d(e.tag).val) > 0
        THEN {b64e(Tail(b64d(e.tag).val))} ELSE {})
  \cup (IF f = "sig_buyer"
        THEN {None, b64e(<<>>)} \cup Spliced(e, Auditor) \cup Spliced(e, seller)
        ELSE {})

Tamper(f, v) ==
  /\ pc = "protected"
  /\ call = NoCall
  /\ ntamper < MaxTamper
  /\ v # env[f]
  /\ env' = [env EXCEPT ![f] = v]
  /\ ntamper' = ntamper + 1
  /\ UNCHANGED <<disclosures, sharetab, reqs, cl, db, posted, pc, document, seller, buyer, layers, prot, shares, issued, nshare, call>>

CreateShareRecord(holder) ==
  /\ pc = "protected"
  /\ call = NoCall
  /\ nshare < MaxShareCalls
  /\ LET out == create_share_record(env, holder, "auditor", Auditor.encryption_public,
                                    holder.name, nshare + 1)
     IN  /\ call' = [op |-> "create_share_record", in |-> env, holder |-> holder,
                     out |-> out]
         /\ shares' = IF out.ok THEN <<out.val>> ELSE shares
         /\ issued' = IF out.ok
                      THEN [kind |-> "full", by |-> holder.name,
                            key |-> holder.signing_public, records |-> <<out.val>>,
                            sections |-> <<>>,
                            signed |-> env.sig_buyer # None, rewritten |-> FALSE]
                      ELSE issued
  /\ nshare' = nshare + 1
  /\ UNCHANGED <<disclosures, sharetab, reqs, cl, db, posted, pc, document, seller, buyer, layers, prot, env, ntamper>>

CreateLayerShareRecords(holder, sections) ==
  /\ pc = "protected"
  /\ call = NoCall
  /\ nshare < MaxShareCalls
  /\ LET out == create_layer_share_records(env, sections, holder, "auditor",
                                           Auditor.encryption_public, holder.name,
                                           nshare + 1)
     IN  /\ call' = [op |-> "create_layer_share_records", in |-> env,
                     holder |-> holder, sections |-> sections, out |-> out]
         /\ shares' = IF out.ok THEN out.val ELSE shares
         /\ issued' = IF out.ok
                      THEN [kind |-> "layer", by |-> holder.name,
                            key |-> holder.signing_public, records |-> out.val,
                            sections |-> sections,
                            signed |-> env.sig_buyer # None, rewritten |-> FALSE]
                      ELSE issued
  /\ nshare' = nshare + 1
  /\ UNCHANGED <<disclosures, sharetab, reqs, cl, db, posted, pc, document, seller, buyer, layers, prot, env, ntamper>>

SetKey(d, k, v) == [x \in DOMAIN d \cup {k} |-> IF x = k THEN v ELSE d[x]]

\* the auditor rewrites the section field of the first record it holds
RewriteShare(section) ==
  /\ call = NoCall
  /\ shares # <<>>
  /\ ntamper < MaxTamper
  /\ Get(shares[1], "section") # S(section)
  /\ shares' = [shares EXCEPT ![1] = SetKey(@, "section", S(section))]
  /\ issued' = [issued EXCEPT !.rewritten = TRUE]
  /\ ntamper' = ntamper + 1
  /\ UNCHANGED <<disclosures, sharetab, reqs, cl, db, posted, pc, document, seller, buyer, layers, prot, env, nshare, call>>

\* what the auditor can set a field of the first record it holds to
ShareFields == {"id", "tx_id", "from_company", "to_company", "ek_to", "layer_hash"}
ShareValues(k) ==
  IF k = "id" THEN <<"uuid", <<9, 0, "">>>>
  ELSE IF k = "tx_id" THEN S("other")
  ELSE IF k \in {"from_company", "to_company"} THEN S("mallory")
  ELSE b64e(Junk)

AlterShare(k) ==
  /\ call = NoCall
  /\ shares # <<>>
  /\ ntamper < MaxTamper
  /\ shares' = [shares EXCEPT ![1] = SetKey(@, k, ShareValues(k))]
  /\ issued' = [issued EXCEPT !.rewritten = TRUE]
  /\ ntamper' = ntamper + 1
  /\ UNCHANGED <<disclosures, sharetab, reqs, cl, db, posted, pc, document, seller, buyer, layers, prot, env, nshare, call>>

\* the auditor removes a field from the first record it holds
DropFields == {"timestamp", "section", "layer_hash"}
DropField(k) ==
  /\ call = NoCall
  /\ shares # <<>>
  /\ ntamper < MaxTamper
  /\ k \in DOMAIN shares[1]
  /\ shares' = [shares EXCEPT ![1] = [x \in DOMAIN @ \ {k} |-> @[x]]]
  /\ issued' = [issued EXCEPT !.rewritten = TRUE]
  /\ ntamper' = ntamper + 1
  /\ UNCHANGED <<disclosures, sharetab, reqs, cl, db, posted, pc, document, seller, buyer, layers, prot, env, nshare, call>>

HeldShares == {shares[i] : i \in DOMAIN shares}

Unprotect(who, name, share) ==
  /\ pc = "protected"
  /\ call = NoCall
  /\ call' = [op |-> "unprotect", in |-> env, who |-> who, name |-> name,
              share |-> share, out |-> unprotect(env, who, name, share)]
  /\ UNCHANGED <<disclosures, sharetab, reqs, cl, db, posted, pc, document, seller, buyer, layers, prot, env, ntamper, shares,
                 issued, nshare>>

UnprotectLayer(who, name, section, share) ==
  /\ pc = "protected"
  /\ call = NoCall
  /\ call' = [op |-> "unprotect_layer", in |-> env, who |-> who, name |-> name,
              section |-> section, share |-> share,
              out |-> unprotect_layer(env, who, name, section, share)]
  /\ UNCHANGED <<disclosures, sharetab, reqs, cl, db, posted, pc, document, seller, buyer, layers, prot, env, ntamper, shares,
                 issued, nshare>>

\* the public keys a verifier may hold for the seller and for the buyer
SellerPubs == {seller.signing_public, Auditor.signing_public}
BuyerPubs == {None, buyer.signing_public, Auditor.signing_public}
Directory == [n \in {seller.name, buyer.name} |->
                IF n = buyer.name THEN buyer.signing_public ELSE seller.signing_public]

\* the directories of share issuers' keys a verifier may pass: the right one,
\* none, and one that registers the auditor's key under every name
WrongDirectory == [n \in {seller.name, buyer.name} |-> Auditor.signing_public]
Directories == {Directory, EmptyDict, WrongDirectory}

Check(spub, bpub, recs, dir) ==
  /\ pc = "protected"
  /\ call = NoCall
  /\ call' = [op |-> "check", in |-> env, spub |-> spub, bpub |-> bpub,
              recs |-> recs, dir |-> dir, out |-> check(env, spub, bpub, recs, dir)]
  /\ UNCHANGED <<disclosures, sharetab, reqs, cl, db, posted, pc, document, seller, buyer, layers, prot, env, ntamper, shares,
                 issued, nshare>>

\* a direct call of the primitive by the seller, who unwraps its own key
AadChoices(e) ==
  {<<>>, Junk, hash_bytes(Junk)}
  \cup (IF b64d(e.hash_T).ok THEN {b64d(e.hash_T).val} ELSE {})

DecryptAesGcm(aad) ==
  /\ pc = "protected"
  /\ call = NoCall
  /\ LET wrapped == select_wrapped_key(env, seller.name, NoDict, None, None)
         key == unwrap_key(seller.encryption_private, wrapped.val)
         ct == b64d(env.ciphertext)
         tag == b64d(env.tag)
         nonce == b64d(env.nonce)
     IN  /\ wrapped.ok /\ key.ok /\ ct.ok /\ tag.ok /\ nonce.ok
         /\ call' = [op |-> "decrypt_aes_gcm", in |-> env, key |-> key.val, aad |-> aad,
                     out |-> decrypt_aes_gcm(key.val, ct.val, tag.val, nonce.val, aad)]
  /\ UNCHANGED <<disclosures, sharetab, reqs, cl, db, posted, pc, document, seller, buyer, layers, prot, env, ntamper, shares,
                 issued, nshare>>

\* the caller takes the result
Return ==
  /\ call # NoCall
  /\ call' = NoCall
  /\ UNCHANGED <<disclosures, sharetab, reqs, cl, db, posted, pc, document, seller, buyer, layers, prot, env, ntamper, shares,
                 issued, nshare>>

\* Transit bench: the envelope is countersigned, altered on the way and then
\* opened and checked by the parties.
NextTransit ==
  \/ Protect
  \/ \E pub \in SellerPubs : BuyerSign(pub)
  \/ pc = "protected" /\ \E f \in TamperFields : \E v \in TamperValues(env, f) :
       Tamper(f, v)
  \/ \E w \in Parties : \E n \in Names : Unprotect(w, n, NoDict)
  \/ \E sp \in SellerPubs : \E bp \in BuyerPubs : Check(sp, bp, <<>>, EmptyDict)
  \/ pc = "protected" /\ \E aad \in AadChoices(env) : DecryptAesGcm(aad)
  \/ Return

SpecTransit == Init /\ [][NextTransit]_vars

\* Delegation bench: share records are issued to the auditor, who may rewrite
\* them before presenting them.  Every party opens the envelope and its layers
\* under every name while no record is out (a call without a record reads no
\* record); the auditor, who holds the records, presents them (the name is
\* not read when a record is presented).
NextShare ==
  \/ Protect
  \/ BuyerSign(seller.signing_public)
  \/ \E h \in Parties : CreateShareRecord(h)
  \/ \E h \in Parties : \E ss \in SectionLists : CreateLayerShareRecords(h, ss)
  \/ \E s \in Sections : RewriteShare(s)
  \/ \E k \in ShareFields : AlterShare(k)
  \/ \E k \in DropFields : DropField(k)
  \/ shares = <<>> /\ \E w \in Parties : \E n \in Names : Unprotect(w, n, NoDict)
  \/ \E sh \in HeldShares : Unprotect(Auditor, Auditor.name, sh)
  \/ shares = <<>> /\ \E w \in Parties : \E n \in Names : \E s \in Sections :
       UnprotectLayer(w, n, s, NoDict)
  \/ \E s \in Sections : \E sh \in HeldShares :
       UnprotectLayer(Auditor, Auditor.name, s, sh)
  \/ \E d \in Directories :
       Check(seller.signing_public, buyer.signing_public, shares, d)
  \/ Return

SpecShare == Init /\ [][NextShare]_vars

\* a client sends the envelope it holds to the registry
PostTransaction ==
  /\ pc = "protected"
  /\ call = NoCall
  /\ LET r == create_transaction(db, env)
     IN  /\ call' = [op |-> "create_transaction", in |-> env, out |-> r.resp]
         /\ db' = r.table
         /\ posted' = IF r.resp.status = 200 THEN (env.tx_id :> env) @@ posted
                       ELSE posted
  /\ UNCHANGED <<disclosures, sharetab, reqs, cl, pc, document, seller, buyer, layers, prot, env, ntamper, shares,
                 issued, nshare>>

GetTransaction(tx_id) ==
  /\ pc = "protected"
  /\ call = NoCall
  /\ call' = [op |-> "get_transaction", tx_id |-> tx_id,
              out |-> get_transaction(db, tx_id)]
  /\ UNCHANGED <<disclosures, sharetab, reqs, cl, db, posted, pc, document, seller, buyer, layers, prot, env, ntamper,
                 shares, issued, nshare>>

\* the signatures a client may send: the buyer's, an empty text, another
\* company's signature over the same hash
BuyerSignBodies ==
  {buyer_sign(prot, buyer, seller.signing_public).val.sig_buyer, b64e(<<>>)}
  \cup Spliced(prot, Auditor)

PostBuyerSign(tx_id, sig_buyer) ==
  /\ pc = "protected"
  /\ call = NoCall
  /\ LET r == add_buyer_signature(db, tx_id, sig_buyer)
     IN  /\ call' = [op |-> "add_buyer_signature", tx_id |-> tx_id,
                     sig_buyer |-> sig_buyer, out |-> r.resp]
         /\ db' = r.table
         /\ posted' = IF r.resp.status = 200
                       THEN [posted EXCEPT ![tx_id].sig_buyer = sig_buyer]
                       ELSE posted
  /\ UNCHANGED <<disclosures, sharetab, reqs, cl, pc, document, seller, buyer, layers, prot, env, ntamper, shares,
                 issued, nshare>>

\* Registry bench: the seller protects, the buyer countersigns, and clients
\* store the envelope, fetch it and send buyer signatures for it.
NextRegistry ==
  \/ Protect
  \/ BuyerSign(seller.signing_public)
  \/ PostTransaction
  \/ pc = "protected" /\ GetTransaction(env.tx_id)
  \/ pc = "protected" /\ \E sig \in BuyerSignBodies : PostBuyerSign(env.tx_id, sig)
  \/ Return

SpecRegistry == Init /\ [][NextRegistry]_vars

\* what a client may send to the tracker for a record it holds: the record,
\* the record under another id for the section "", the record for another
\* transaction under the same id
OtherId == <<"uuid", <<9, 0, "">>>>
OtherTx == S("tx-other")
DisclosureBodies ==
  UNION { {rec,
           SetKey(SetKey(rec, "id", OtherId), "section", S("")),
           SetKey(rec, "tx_id", OtherTx)} : rec \in HeldShares }

AddDisclosure(body) ==
  /\ pc = "protected"
  /\ call = NoCall
  /\ LET r == add_disclosure(disclosures, body)
     IN  /\ Len(r.table) <= MaxDisclosures
         /\ call' = [op |-> "add_disclosure", body |-> body, before |-> disclosures,
                     out |-> r.resp]
         /\ disclosures' = r.table
  /\ UNCHANGED <<sharetab, reqs, cl, db, posted, pc, document, seller, buyer, layers,
                 prot, env, ntamper, shares, issued, nshare>>

ListDisclosures(tx_id, section) ==
  /\ pc = "protected"
  /\ call = NoCall
  /\ call' = [op |-> "list_disclosures", tx_id |-> tx_id, section |-> section,
              out |-> list_disclosures(disclosures, tx_id, section)]
  /\ UNCHANGED <<disclosures, sharetab, reqs, cl, db, posted, pc, document, seller,
                 buyer, layers, prot, env, ntamper, shares, issued, nshare>>

\* the section parameters a query is made with: none, "", a name
SectionParams == {None, S(""), S("pricing")}

\* Disclosure bench: the buyer issues share records, whole or per section, and
\* clients record them with the tracker and query it.
NextDisclosure ==
  \/ Protect
  \/ CreateShareRecord(buyer)
  \/ \E ss \in SectionLists : CreateLayerShareRecords(buyer, ss)
  \/ \E body \in DisclosureBodies : AddDisclosure(body)
  \/ pc = "protected" /\ \E tx \in {env.tx_id, OtherTx} : \E s \in SectionParams :
       ListDisclosures(tx, s)
  \/ Return

SpecDisclosure == Init /\ [][NextDisclosure]_vars

\* Key-wrapping bench: a key is wrapped for a recipient, the blob's fields are
\* replaced on the way, and a key pair's private key is used to unwrap it.
InitWrap ==
  /\ Init
  /\ document = [amount |-> JInt(1)]
  /\ seller = Seller1 /\ buyer = Buyer2
  /\ layers = EmptyDict

\* the key pairs and the symmetric keys of the bench
Recipients == {1, 2, 3}
SymKeys == {FreshKey(<<5, 0, "">>), FreshKey(<<5, 1, "pricing">>)}
WrapFields == {"ephemeral_public", "nonce", "ciphertext"}

\* another wrapped key, for another recipient, of another draw
OtherWrapped == wrap_key(EncPub(4), FreshKey(<<6, 0, "">>), <<6, 0, "">>, "wrap").val

WrapKey(k, key) ==
  /\ pc = "draft"
  /\ call = NoCall
  /\ LET out == wrap_key(EncPub(k), key, <<5, 0, "">>, "wrap")
     IN  call' = [op |-> "wrap_key", to |-> k, key |-> key, sent |-> out.val,
                  blob |-> out.val, nalter |-> 0]
  /\ UNCHANGED <<disclosures, sharetab, reqs, cl, db, posted, pc, document, seller,
                 buyer, layers, prot, env, ntamper, shares, issued, nshare>>

\* what a field of the blob can be replaced by: the same bytes in another
\* base64 text, the same point with the unread bit set, another blob's field,
\* junk, text that is not base64
WrapValues(payload, f) ==
  {OtherWrapped[1][3][f], b64e(Junk), NotBase64}
  \cup (IF payload[f][1] = "b64" THEN {Reencode(payload[f])} ELSE {})
  \cup (IF f = "ephemeral_public"
        THEN LET raw == payload[f][3]
             IN  IF Len(raw) = 1 /\ raw[1][1] = "x25519-raw"
                 THEN {b64e(RawPublic(raw[1][2], 1 - raw[1][3]))} ELSE {}
        ELSE {})

AlterBlobField(f, v) ==
  /\ call.op = "wrap_key"
  /\ call.nalter < MaxTamper
  /\ call.blob[1][1] = "wrapjson"
  /\ call' = [call EXCEPT !.nalter = @ + 1,
                          !.blob = WrapJson([call.blob[1][3] EXCEPT ![f] = v],
                                            call.blob[1][2])]
  /\ UNCHANGED <<disclosures, sharetab, reqs, cl, db, posted, pc, document, seller,
                 buyer, layers, prot, env, ntamper, shares, issued, nshare>>

\* the whole blob is replaced: the same payload in another JSON text, or bytes
\* that are not JSON
AlterBlob(whole) ==
  /\ call.op = "wrap_key"
  /\ call.nalter < MaxTamper
  /\ call.blob[1][1] = "wrapjson"
  /\ call' = [call EXCEPT !.nalter = @ + 1,
                          !.blob = IF whole = "json"
                                   THEN WrapJson(call.blob[1][3], 1 - call.blob[1][2])
                                   ELSE Junk]
  /\ UNCHANGED <<disclosures, sharetab, reqs, cl, db, posted, pc, document, seller,
                 buyer, layers, prot, env, ntamper, shares, issued, nshare>>

UnwrapKey(k) ==
  /\ call.op = "wrap_key"
  /\ call' = [op |-> "unwrap_key", to |-> call.to, key |-> call.key,
              sent |-> call.sent, blob |-> call.blob, with |-> k,
              out |-> unwrap_key(EncPriv(k), call.blob)]
  /\ UNCHANGED <<disclosures, sharetab, reqs, cl, db, posted, pc, document, seller,
                 buyer, layers, prot, env, ntamper, shares, issued, nshare>>

NextWrap ==
  \/ \E k \in Recipients : \E key \in SymKeys : WrapKey(k, key)
  \/ call.op = "wrap_key" /\ call.blob[1][1] = "wrapjson"
       /\ \E f \in WrapFields : \E v \in WrapValues(call.blob[1][3], f) :
            AlterBlobField(f, v)
  \/ \E whole \in {"json", "junk"} : AlterBlob(whole)
  \/ \E k \in Recipients : UnwrapKey(k)
  \/ Return

SpecWrap == InitWrap /\ [][NextWrap]_vars

\* Canonical-encoding bench: two documents are drawn, each is serialized.
ScalarValues == {JStr("A"), JInt(1)}
InnerValues ==
  ScalarValues
  \cup { PyDict(<< <<"amount", JInt(1)>>, <<"route", JStr("A")>> >>),
         PyDict(<< <<"route", JStr("A")>>, <<"amount", JInt(1)>> >>),
         PyDict(<< <<"amount", JInt(2)>>, <<"route", JStr("A")>> >>),
         PyDict(<< <<"amount", JInt(1)>> >>),
         PyDict(<<>>),
         PyList(<<>>),
         PyList(<< JInt(1), JStr("A") >>),
         PyList(<< JStr("A"), JInt(1) >>),
         PyList(<< PyDict(<< <<"id", JInt(1)>>, <<"amount", JStr("A")>> >>) >>),
         PyList(<< PyDict(<< <<"amount", JStr("A")>>, <<"id", JInt(1)>> >>) >>) }
OrderedDocs ==
  {PyDict(<<>>)}
  \cup { PyDict(<< <<"id", v>> >>) : v \in ScalarValues }
  \cup { PyDict(<< <<"amount", v>> >>) : v \in InnerValues }
  \cup { PyDict(<< <<"id", v>>, <<"amount", w>> >>) : v \in ScalarValues, w \in InnerValues }
  \cup { PyDict(<< <<"amount", w>>, <<"id", v>> >>) : v \in ScalarValues, w \in InnerValues }

InitCanonical ==
  /\ pc = "draft"
  /\ document = [amount |-> JInt(1)]
  /\ seller = Seller1 /\ buyer = Buyer2
  /\ layers = EmptyDict
  /\ prot = NoDict /\ env = NoDict
  /\ ntamper = 0 /\ nshare = 0
  /\ shares = <<>> /\ issued = NotIssued
  /\ \E a \in OrderedDocs : \E b \in OrderedDocs :
       call = [op |-> "documents", a |-> a, b |-> b]
  /\ db = <<>> /\ posted = EmptyDict
  /\ disclosures = <<>> /\ sharetab = NoShares
  /\ reqs = NoRequests /\ cl = NoRuns

CanonicalBytes ==
  /\ call.op = "documents"
  /\ call' = [op |-> "canonical_bytes", a |-> call.a, b |-> call.b,
              out_a |-> canonical_text(call.a), out_b |-> canonical_text(call.b)]
  /\ UNCHANGED <<disclosures, sharetab, reqs, cl, db, posted, pc, document, seller,
                 buyer, layers, prot, env, ntamper, shares, issued, nshare>>

NextCanonical ==
  \/ CanonicalBytes
  \/ Return

SpecCanonical == InitCanonical /\ [][NextCanonical]_vars

\* what clients send to POST /transactions: the envelope, an envelope of the
\* same tx_id with another ciphertext, the envelope under another tx_id
TransactionBodies ==
  {env, SetKey(env, "ciphertext", b64e(Junk)), SetKey(env, "tx_id", OtherTx)}

\* a request arrives and gets a worker thread and a database session
ReceivePost(body) ==
  /\ pc = "protected"
  /\ Len(reqs) < MaxRequests
  /\ reqs' = Append(reqs, [body |-> body, at |-> "query", resp |-> None])
  /\ UNCHANGED <<disclosures, sharetab, cl, db, posted, pc, document, seller, buyer,
                 layers, prot, env, ntamper, shares, issued, nshare, call>>

\* the handler's first statement: the query for a row of this tx_id
QueryExisting(i) ==
  /\ reqs[i].at = "query"
  /\ reqs' = [reqs EXCEPT ![i] =
       IF RowsOf(db, TransactionIn(@.body).tx_id) # <<>>
       THEN [@ EXCEPT !.at = "done",
                      !.resp = Response(400, [detail |-> S("Transaction already exists")])]
       ELSE [@ EXCEPT !.at = "commit"]]
  /\ UNCHANGED <<disclosures, sharetab, cl, db, posted, pc, document, seller, buyer,
                 layers, prot, env, ntamper, shares, issued, nshare, call>>

\* db.add(tx); db.commit() and the response; an exception of the commit is
\* answered 500
AddCommit(i) ==
  /\ reqs[i].at = "commit"
  /\ LET payload == TransactionIn(reqs[i].body)
         stored == insert_row(db, TransactionRecord(payload))
     IN  /\ db' = IF stored.ok THEN stored.val ELSE db
         /\ reqs' = [reqs EXCEPT ![i] = [@ EXCEPT !.at = "done", !.resp =
              IF stored.ok
              THEN Response(200, [status |-> S("stored"), tx_id |-> payload.tx_id])
              ELSE Response(500, [detail |-> S("Internal Server Error")])]]
  /\ UNCHANGED <<disclosures, sharetab, cl, posted, pc, document, seller, buyer,
                 layers, prot, env, ntamper, shares, issued, nshare, call>>

\* Concurrency bench: the seller protects, and clients post envelopes to the
\* registry, whose handlers run concurrently, statement by statement.
NextConcurrent ==
  \/ Protect
  \/ Return
  \/ pc = "protected" /\ \E body \in TransactionBodies : ReceivePost(body)
  \/ \E i \in DOMAIN reqs : QueryExisting(i)
  \/ \E i \in DOMAIN reqs : AddCommit(i)

SpecConcurrent == Init /\ [][NextConcurrent]_vars

\* the share records a client may post: the records it holds, and each under
\* the tx_id of another transaction
ShareBodies == HeldShares \cup {SetKey(rec, "tx_id", OtherTx) : rec \in HeldShares}

\* the paths share requests are made on
SharePaths == {env.tx_id, OtherTx} \ {S("")}

\* sharetab.sent keeps, for every stored row, the request that stored it
PostShare(tx_id, body) ==
  /\ pc = "protected"
  /\ call = NoCall
  /\ Len(sharetab.rows) < MaxShares
  /\ LET r == add_share_record(db, sharetab.rows, tx_id, body)
     IN  /\ call' = [op |-> "add_share_record", tx_id |-> tx_id, body |-> body,
                     before |-> sharetab.rows, out |-> r.resp]
         /\ sharetab' = IF r.resp.status = 200
                        THEN [rows |-> r.table,
                              sent |-> Append(sharetab.sent, [path |-> tx_id, body |-> body])]
                        ELSE sharetab
  /\ UNCHANGED <<disclosures, reqs, cl, db, posted, pc, document, seller, buyer,
                 layers, prot, env, ntamper, shares, issued, nshare>>

ListShares(tx_id) ==
  /\ pc = "protected"
  /\ call = NoCall
  /\ call' = [op |-> "list_shares", tx_id |-> tx_id,
              out |-> list_shares(sharetab.rows, tx_id)]
  /\ UNCHANGED <<disclosures, sharetab, reqs, cl, db, posted, pc, document, seller,
                 buyer, layers, prot, env, ntamper, shares, issued, nshare>>

\* Share-registry bench: the seller stores the envelope, the buyer issues
\* share records, whole or per section, and clients post them and list them.
NextShareRegistry ==
  \/ Protect
  \/ PostTransaction
  \/ CreateShareRecord(buyer)
  \/ \E ss \in SectionLists : CreateLayerShareRecords(buyer, ss)
  \/ pc = "protected" /\ \E tx \in SharePaths : \E body \in ShareBodies :
       PostShare(tx, body)
  \/ pc = "protected" /\ \E tx \in SharePaths : ListShares(tx)
  \/ Return

SpecShareRegistry == Init /\ [][NextShareRegistry]_vars

\* Access bench: the seller or the buyer issues share records to the auditor,
\* whole or per section, and every party calls unprotect and unprotect_layer
\* with its own keys under every name, without a record and with each record
\* that is out.
NextAccess ==
  \/ Protect
  \/ \E h \in {seller, buyer} : CreateShareRecord(h)
  \/ \E ss \in SectionLists : CreateLayerShareRecords(buyer, ss)
  \/ \E w \in Parties : \E n \in Names : \E sh \in {NoDict} \cup HeldShares :
       Unprotect(w, n, sh)
  \/ \E w \in Parties : \E n \in Names : \E s \in Sections :
       \E sh \in {NoDict} \cup HeldShares : UnprotectLayer(w, n, s, sh)
  \/ Return

SpecAccess == Init /\ [][NextAccess]_vars

\* the envelope of another transaction of the same seller and buyer
OtherDoc == [id |-> JStr("tx2"), amount |-> JInt(2), route |-> JStr("B")]
OtherEnvelope == protect_with_layers(OtherDoc, seller, buyer, TwoLayers, 7).val

\* the envelopes a verifier may check a record against: the one it was issued
\* for, that one under another tx_id, and another transaction's
EnvelopeChoices == {env, SetKey(env, "tx_id", OtherTx), OtherEnvelope}

CheckAgainst(e, dir) ==
  /\ pc = "protected"
  /\ call = NoCall
  /\ shares # <<>>
  /\ call' = [op |-> "check", in |-> e, spub |-> seller.signing_public,
              bpub |-> buyer.signing_public, recs |-> shares, dir |-> dir,
              out |-> check(e, seller.signing_public, buyer.signing_public,
                            shares, dir)]
  /\ UNCHANGED <<disclosures, sharetab, reqs, cl, db, posted, pc, document, seller,
                 buyer, layers, prot, env, ntamper, shares, issued, nshare>>

\* Verdict bench: the seller or the buyer issues share records, the holder
\* may alter them, and a verifier checks them against several envelopes.
NextVerdict ==
  \/ Protect
  \/ \E h \in {seller, buyer} : CreateShareRecord(h)
  \/ \E ss \in SectionLists : CreateLayerShareRecords(buyer, ss)
  \/ \E k \in ShareFields : AlterShare(k)
  \/ pc = "protected" /\ \E e \in EnvelopeChoices : \E d \in Directories :
       CheckAgainst(e, d)
  \/ Return

SpecVerdict == Init /\ [][NextVerdict]_vars

\* ------------------------------------------------------------ clients/*.py

\* a tx_id makes a URL of the routes /transactions/{tx_id}... unless it is empty
Routed(tx_id) == tx_id # S("")
NotFound == Response(404, [detail |-> S("Not Found")])

\* the tx_id the buyer and third-party clients are started with
TxArg == env.tx_id

\* the --share-with argument of a buyer run: absent (or empty), or the auditor
ShareWith == {"", Auditor.name}

\* seller_client.run up to the protected file: protect with the keys of the
\* two names
SellerProtect ==
  /\ pc = "draft"
  /\ cl.seller.at = "idle"
  /\ LET out == protect(document, seller, buyer, 0)
     IN  /\ pc' = IF out.ok THEN "protected" ELSE "raised"
         /\ prot' = IF out.ok THEN out.val ELSE prot
         /\ env' = IF out.ok THEN out.val ELSE env
         /\ cl' = [cl EXCEPT !.seller.at = IF out.ok THEN "protected" ELSE "raised"]
  /\ UNCHANGED <<disclosures, sharetab, reqs, db, posted, document, seller, buyer,
                 layers, ntamper, shares, issued, nshare, call>>

\* seller_client.run: POST /transactions with the envelope as it arrives
SellerPost ==
  /\ pc = "protected"
  /\ cl.seller.at = "protected"
  /\ LET r == create_transaction(db, env)
     IN  /\ db' = r.table
         /\ posted' = IF r.resp.status = 200 THEN (env.tx_id :> env) @@ posted
                      ELSE posted
         /\ cl' = [cl EXCEPT !.seller = [at |-> "done", status |-> r.resp.status]]
  /\ UNCHANGED <<disclosures, sharetab, reqs, pc, document, seller, buyer, layers,
                 prot, env, ntamper, shares, issued, nshare, call>>

\* buyer_client.run: GET /transactions/{tx_id}; the run exits unless 200
BuyerFetch(share_with) ==
  /\ pc = "protected"
  /\ cl.buyer.at = "idle"
  /\ LET res == IF Routed(TxArg) THEN get_transaction(db, TxArg) ELSE NotFound
     IN  cl' = [cl EXCEPT !.buyer =
                  IF res.status # 200 THEN [@ EXCEPT !.at = "exit"]
                  ELSE [@ EXCEPT !.at = "fetched", !.tx = res.body,
                                 !.share_with = share_with]]
  /\ UNCHANGED <<disclosures, sharetab, reqs, db, posted, pc, document, seller,
                 buyer, layers, prot, env, ntamper, shares, issued, nshare, call>>

\* buyer_client.run: check, unprotect and buyer_sign on the fetched envelope;
\* an exception of any of them ends the run
BuyerVerifyAndSign ==
  /\ cl.buyer.at = "fetched"
  /\ LET tx == cl.buyer.tx
         report == check(tx, seller.signing_public, buyer.signing_public, <<>>,
                         EmptyDict)
         plaintext == unprotect(tx, buyer, buyer.name, NoDict)
         signed == buyer_sign(tx, buyer, seller.signing_public)
     IN  cl' = [cl EXCEPT !.buyer =
                  IF ~report.ok THEN [@ EXCEPT !.at = "raised"]
                  ELSE IF ~plaintext.ok THEN [@ EXCEPT !.at = "raised"]
                  ELSE IF ~signed.ok
                  THEN [@ EXCEPT !.at = "raised", !.plain = plaintext.val]
                  ELSE [@ EXCEPT !.at = "signed", !.plain = plaintext.val,
                                 !.signed = signed.val]]
  /\ UNCHANGED <<disclosures, sharetab, reqs, db, posted, pc, document, seller,
                 buyer, layers, prot, env, ntamper, shares, issued, nshare, call>>

\* buyer_client.run: POST /transactions/{tx_id}/buyer_sign
BuyerPushSignature ==
  /\ cl.buyer.at = "signed"
  /\ LET r == IF Routed(TxArg)
              THEN add_buyer_signature(db, TxArg, cl.buyer.signed.sig_buyer)
              ELSE [resp |-> NotFound, table |-> db]
     IN  /\ db' = r.table
         /\ posted' = IF r.resp.status = 200 /\ TxArg \in DOMAIN posted
                      THEN [posted EXCEPT ![TxArg].sig_buyer = cl.buyer.signed.sig_buyer]
                      ELSE posted
         /\ cl' = [cl EXCEPT !.buyer.log = Append(@, "buyer_sign"),
                             !.buyer.at = IF cl.buyer.share_with = ""
                                          THEN "done" ELSE "pushed"]
  /\ UNCHANGED <<disclosures, sharetab, reqs, pc, document, seller, buyer, layers,
                 prot, env, ntamper, shares, issued, nshare, call>>

\* buyer_client.run with --share-with: create_share_record on the signed
\* envelope and POST /transactions/{tx_id}/share
BuyerShare ==
  /\ cl.buyer.at = "pushed"
  /\ LET rec == create_share_record(cl.buyer.signed, buyer, cl.buyer.share_with,
                                    Auditor.encryption_public, buyer.name, 1)
         r == IF Routed(TxArg)
              THEN add_share_record(db, sharetab.rows, TxArg, rec.val)
              ELSE [resp |-> NotFound, table |-> sharetab.rows]
     IN  IF ~rec.ok
         THEN /\ cl' = [cl EXCEPT !.buyer.at = "raised"]
              /\ UNCHANGED sharetab
         ELSE /\ sharetab' = IF r.resp.status = 200
                             THEN [rows |-> r.table,
                                   sent |-> Append(sharetab.sent,
                                                   [path |-> TxArg, body |-> rec.val])]
                             ELSE sharetab
              /\ cl' = [cl EXCEPT !.buyer.log = Append(@, "share"),
                                  !.buyer.at = "done"]
  /\ UNCHANGED <<disclosures, reqs, db, posted, pc, document, seller, buyer, layers,
                 prot, env, ntamper, shares, issued, nshare, call>>

\* third_party_client.run: GET /transactions/{tx_id}; the run exits unless 200
ThirdFetch ==
  /\ pc = "protected"
  /\ cl.third.at = "idle"
  /\ LET res == IF Routed(TxArg) THEN get_transaction(db, TxArg) ELSE NotFound
     IN  cl' = [cl EXCEPT !.third =
                  IF res.status # 200 THEN [@ EXCEPT !.at = "exit"]
                  ELSE [@ EXCEPT !.at = "fetched", !.tx = res.body,
                                 !.after_share = cl.buyer.at = "done"
                                                 /\ cl.buyer.share_with # ""]]
  /\ UNCHANGED <<disclosures, sharetab, reqs, db, posted, pc, document, seller,
                 buyer, layers, prot, env, ntamper, shares, issued, nshare, call>>

\* third_party_client.run: GET /transactions/{tx_id}/shares, the first share
\* addressed to the company (exit when there is none), check and unprotect
ThirdOpen ==
  /\ cl.third.at = "fetched"
  /\ LET res == IF Routed(TxArg) THEN list_shares(sharetab.rows, TxArg) ELSE NotFound
         mine == IF res.status = 200
                 THEN SelectSeq(res.body, LAMBDA s : s.to_company = S(Auditor.name))
                 ELSE <<>>
         tx == cl.third.tx
         report == check(tx, seller.signing_public, buyer.signing_public,
                         <<mine[1]>>,
                         [n \in {seller.name, buyer.name} |->
                            IF n = buyer.name THEN buyer.signing_public
                            ELSE seller.signing_public])
         plaintext == unprotect(tx, Auditor, Auditor.name, mine[1])
     IN  cl' = [cl EXCEPT !.third =
                  IF mine = <<>> THEN [@ EXCEPT !.at = "exit"]
                  ELSE IF ~report.ok THEN [@ EXCEPT !.at = "raised"]
                  ELSE IF ~plaintext.ok
                  THEN [@ EXCEPT !.at = "raised", !.report = report.val]
                  ELSE [@ EXCEPT !.at = "done", !.report = report.val,
                                 !.plain = plaintext.val]]
  /\ UNCHANGED <<disclosures, sharetab, reqs, db, posted, pc, document, seller,
                 buyer, layers, prot, env, ntamper, shares, issued, nshare, call>>

\* the clients read each company's key file by its name: one key pair a name
InitFlow ==
  /\ Init
  /\ seller = Seller1 /\ buyer = Buyer2
  /\ layers = EmptyDict

\* Buyer-run bench: the seller client's envelope may be altered on its way to
\* the registry; the buyer client runs on what the registry stores.
NextBuyerRun ==
  \/ SellerProtect
  \/ pc = "protected" /\ cl.seller.at = "protected"
       /\ \E f \in TamperFields : \E v \in TamperValues(env, f) : Tamper(f, v)
  \/ SellerPost
  \/ \E w \in ShareWith : BuyerFetch(w)
  \/ BuyerVerifyAndSign
  \/ BuyerPushSignature
  \/ BuyerShare

SpecBuyerRun == InitFlow /\ [][NextBuyerRun]_vars

\* Workflow bench: the three clients run against the registry, each once, in
\* any order and interleaved; nobody else writes to the registry.
NextFlow ==
  \/ SellerProtect
  \/ SellerPost
  \/ \E w \in ShareWith : BuyerFetch(w)
  \/ BuyerVerifyAndSign
  \/ BuyerPushSignature
  \/ BuyerShare
  \/ ThirdFetch
  \/ ThirdOpen

SpecFlow == InitFlow /\ [][NextFlow]_vars

\* ---------------------------------------------------------------- claims

\* the envelope is as the library produced it: nothing was replaced on the way
Untouched == ntamper = 0

\* the party opens the envelope under its own name
OwnName(c) ==
  \/ c.who = seller /\ c.name = seller.name
  \/ c.who = buyer /\ c.name = buyer.name

\* C1: round trip.  For a seller and a buyer with distinct names, unprotect of
\* the envelope protect returned, or of the one buyer_sign returned, by the
\* seller or by the buyer under its own name returns exactly the document.
C1_RoundTrip ==
  ( /\ call.op = "unprotect"
    /\ Untouched
    /\ seller.name # buyer.name
    /\ call.share = NoDict
    /\ OwnName(call) )
  => (call.out.ok /\ call.out.val = document)

C1_Witness ==
  /\ call.op = "unprotect"
  /\ Untouched
  /\ seller.name # buyer.name
  /\ call.share = NoDict
  /\ call.who = buyer /\ call.name = buyer.name
  /\ call.in.sig_buyer # None
  /\ "route" \in DOMAIN document
  /\ call.out.ok /\ call.out.val = document

\* C2: layer isolation.  The auditor, who has no ek_map entry and was issued a
\* share record for one section only, never opens another section, whether it
\* presents the record as issued or with its section field rewritten.
C2_LayerIsolation ==
  ( /\ call.op = "unprotect_layer"
    /\ call.who = Auditor
    /\ call.share # NoDict
    /\ issued.kind = "layer"
    /\ Len(issued.sections) = 1
    /\ call.section # issued.sections[1] )
  => ~call.out.ok

C2_Witness ==
  /\ call.op = "unprotect_layer"
  /\ call.who = Auditor
  /\ call.share # NoDict
  /\ issued.kind = "layer"
  /\ issued.sections = <<"pricing">>
  /\ issued.rewritten
  /\ call.section = "logistics"
  /\ call.share.section = S("logistics")
  /\ ~call.out.ok /\ call.out.err = "InvalidTag"

\* the ek_map entry under the holder's name is the holder's own wrapped key
\* (on equal names the seller's entry is replaced by the buyer's)
HasEntry(h) == h = buyer \/ (h = seller /\ seller.name # buyer.name)

\* C3: share delegation.  A holder with an ek_map entry issues a share record
\* for the auditor, who has none; the auditor's unprotect with that record
\* returns the document, also when the record was issued before the buyer
\* countersigned and is presented after.
C3_ShareDelegation ==
  /\ ( /\ call.op = "create_share_record"
       /\ HasEntry(call.holder) )
     => call.out.ok
  /\ ( /\ call.op = "unprotect"
       /\ call.who = Auditor
       /\ call.share # NoDict
       /\ issued.kind = "full"
       /\ ~issued.rewritten )
     => (call.out.ok /\ call.out.val = document)

C3_Witness ==
  /\ call.op = "unprotect"
  /\ call.who = Auditor /\ call.name = "auditor"
  /\ "auditor" \notin DOMAIN call.in.ek_map
  /\ call.share # NoDict
  /\ issued.kind = "full"
  /\ ~issued.signed
  /\ issued.by = buyer.name
  /\ call.in.sig_buyer # None
  /\ call.out.ok /\ call.out.val = document

\* the fields of the envelope that the hash is bound to
BoundFields == {"ciphertext", "tag", "nonce", "hash_T"}

\* exactly field f of the envelope was replaced by a different value
Replaced(f) == pc = "protected" /\ ntamper = 1 /\ env[f] # prot[f]

\* C4: hash binding.  After ciphertext, tag, nonce or hash_T is replaced by any
\* different value, unprotect fails for the seller and for the buyer; after
\* hash_T is replaced, check also reports seller_sig_ok (and, on a countersigned
\* envelope, buyer_sig_ok) false; unprotect never returns another document.
C4_HashBinding ==
  \A f \in BoundFields :
    (Replaced(f) /\ seller.name # buyer.name) =>
      /\ (call.op = "unprotect" /\ call.share = NoDict /\ OwnName(call))
           => ~call.out.ok
      /\ (f = "hash_T" /\ call.op = "check" /\ call.out.ok
          /\ call.spub = seller.signing_public)
           => /\ ~call.out.val.seller_sig_ok
              /\ (call.in.sig_buyer # None /\ call.bpub = buyer.signing_public)
                   => call.out.val.buyer_sig_ok = Bool(FALSE)
      /\ (call.op = "unprotect" /\ call.out.ok) => call.out.val = document

\* What holds of the code in C4's place: the same, for a replacement that does
\* not decode to the bytes it replaces.
C4_DecodedBytesBinding ==
  \A f \in BoundFields :
    (Replaced(f) /\ b64d(env[f]) # b64d(prot[f]) /\ seller.name # buyer.name) =>
      /\ (call.op = "unprotect" /\ call.share = NoDict /\ OwnName(call))
           => ~call.out.ok
      /\ (f = "hash_T" /\ call.op = "check" /\ call.out.ok
          /\ call.spub = seller.signing_public)
           => /\ ~call.out.val.seller_sig_ok
              /\ (call.in.sig_buyer # None /\ call.bpub = buyer.signing_public)
                   => call.out.val.buyer_sig_ok = Bool(FALSE)
      /\ (call.op = "unprotect" /\ call.out.ok) => call.out.val = document

\* C5: envelope invariants.  protect returns hash_T = SHA256(canonical(D)), a
\* sig_seller that verifies under the seller's key and no sig_buyer; buyer_sign
\* returns a sig_buyer that verifies under the buyer's key, and check of the
\* countersigned envelope with both honest keys reports both signatures true.
C5_EnvelopeInvariants ==
  /\ (call.op = "protect" /\ call.out.ok) =>
       LET e == call.out.val
           h == hash_bytes(canonical_bytes(document))
       IN  /\ e.hash_T = b64e(h)
           /\ b64d(e.sig_seller).ok
           /\ verify(seller.signing_public, h, b64d(e.sig_seller).val) = Ok(TRUE)
           /\ e.sig_buyer = None
  /\ (call.op = "buyer_sign" /\ call.out.ok) =>
       LET e == call.out.val
       IN  /\ b64d(e.sig_buyer).ok
           /\ verify(buyer.signing_public, b64d(e.hash_T).val, b64d(e.sig_buyer).val)
                = Ok(TRUE)
  /\ ( /\ call.op = "check" /\ Untouched /\ call.in.sig_buyer # None
       /\ call.spub = seller.signing_public /\ call.bpub = buyer.signing_public ) =>
       /\ call.out.ok
       /\ call.out.val.seller_sig_ok
       /\ call.out.val.buyer_sig_ok = Bool(TRUE)

C5_Witness ==
  /\ call.op = "check" /\ Untouched /\ call.in.sig_buyer # None
  /\ call.in.hash_T = b64e(hash_bytes(canonical_bytes(document)))
  /\ call.spub = seller.signing_public /\ call.bpub = buyer.signing_public
  /\ call.out.ok
  /\ call.out.val.seller_sig_ok
  /\ call.out.val.buyer_sig_ok = Bool(TRUE)

\* sig_seller decodes to a signature of the decoded hash_T by the holder of the
\* private key of pub
SellerSigVerifies(e, pub) ==
  /\ b64d(e.hash_T).ok
  /\ b64d(e.sig_seller).ok
  /\ b64d(e.sig_seller).val = << <<"sig", pub[2], b64d(e.hash_T).val>> >>

\* C6: buyer_sign refuses.  When sig_seller does not verify over hash_T under
\* the supplied key, buyer_sign raises and returns no envelope; it returns an
\* envelope with the buyer's signature only when the verification succeeds.
C6_BuyerSignRefuses ==
  call.op = "buyer_sign" =>
    /\ ~SellerSigVerifies(call.in, call.pub) =>
         (~call.out.ok /\ call.out.val = None /\ env = call.in)
    /\ SellerSigVerifies(call.in, call.pub) =>
         /\ call.out.ok
         /\ call.out.val.sig_buyer
              = b64e(<< <<"sig", buyer.signing_public[2], b64d(call.in.hash_T).val>> >>)

C6_Witness ==
  /\ call.op = "buyer_sign"
  /\ call.pub = seller.signing_public
  /\ call.in.sig_seller = b64e(Junk)
  /\ ~call.out.ok /\ call.out.err = "ValueError"
  /\ env.sig_buyer = None

\* C7: buyer_sign is non-destructive.  The caller's envelope is left as it was,
\* and the envelope returned has the same keys and, except for sig_buyer, the
\* same values, layers included.
C7_BuyerSignNonDestructive ==
  call.op = "buyer_sign" =>
    /\ call.out.arg = call.in
    /\ call.out.ok =>
         /\ DOMAIN call.out.val = DOMAIN call.in
         /\ \A k \in DOMAIN call.in \ {"sig_buyer"} : call.out.val[k] = call.in[k]

C7_Witness ==
  /\ call.op = "buyer_sign"
  /\ call.out.ok
  /\ call.in.sig_buyer = None
  /\ call.out.arg.sig_buyer = None
  /\ call.out.val.sig_buyer # None
  /\ prot.sig_buyer = None
  /\ "layers" \in DOMAIN call.in
  /\ call.out.val.layers = call.in.layers

\* C8: AAD binding.  Decrypting the ciphertext protect produced, with the right
\* key, tag and nonce, fails for every associated data other than the hash_T
\* of the encryption.
C8_AadBinding ==
  ( /\ call.op = "decrypt_aes_gcm"
    /\ Untouched
    /\ call.aad # hash_bytes(canonical_bytes(document)) )
  => ~call.out.ok

C8_Witness ==
  /\ call.op = "decrypt_aes_gcm"
  /\ Untouched
  /\ call.aad = <<>>
  /\ ~call.out.ok /\ call.out.err = "InvalidTag"

\* C9: buyer_sig_ok of check.  It is null exactly when the envelope carries no
\* sig_buyer; false when sig_buyer is there and no buyer key is supplied; and
\* otherwise the result of verifying sig_buyer over hash_T under the key.
C9_BuyerSigOk ==
  (call.op = "check" /\ call.out.ok) =>
    /\ (call.out.val.buyer_sig_ok = None) <=> (call.in.sig_buyer = None)
    /\ (call.in.sig_buyer # None /\ call.bpub = None)
         => call.out.val.buyer_sig_ok = Bool(FALSE)
    /\ (call.in.sig_buyer # None /\ call.bpub # None)
         => call.out.val.buyer_sig_ok
              = Bool(b64d(call.in.sig_buyer).val
                       = << <<"sig", call.bpub[2], b64d(call.in.hash_T).val>> >>)

\* What holds of the code in C9's place: the same, with the empty string
\* counted as no sig_buyer.
C9_BuyerSigOkTruthy ==
  (call.op = "check" /\ call.out.ok) =>
    /\ (call.out.val.buyer_sig_ok = None) <=> ~Truthy(call.in.sig_buyer)
    /\ (Truthy(call.in.sig_buyer) /\ call.bpub = None)
         => call.out.val.buyer_sig_ok = Bool(FALSE)
    /\ (Truthy(call.in.sig_buyer) /\ call.bpub # None)
         => call.out.val.buyer_sig_ok
              = Bool(b64d(call.in.sig_buyer).val
                       = << <<"sig", call.bpub[2], b64d(call.in.hash_T).val>> >>)

\* sig_buyer of the envelope protect returned was set to x's signature of hash_T
SplicedBy(e, x) ==
  /\ e.sig_buyer = b64e(<< <<"sig", x.signing_public[2], b64d(prot.hash_T).val>> >>)
  /\ \A k \in DOMAIN e \ {"sig_buyer"} : e[k] = prot[k]

\* C10: signature distinctness.  With sig_buyer set to the signature of hash_T
\* by an identity other than the buyer, check with the seller's and the buyer's
\* public keys reports seller_sig_ok true and buyer_sig_ok false.
C10_SignatureDistinctness ==
  \A x \in {Auditor, seller} :
    ( /\ call.op = "check"
      /\ SplicedBy(call.in, x)
      /\ call.spub = seller.signing_public /\ call.bpub = buyer.signing_public )
    => /\ call.out.ok
       /\ call.out.val.seller_sig_ok
       /\ call.out.val.buyer_sig_ok = Bool(FALSE)

C10_Witness ==
  /\ call.op = "check"
  /\ SplicedBy(call.in, Auditor)
  /\ call.spub = seller.signing_public /\ call.bpub = buyer.signing_public
  /\ call.out.ok
  /\ call.out.val.seller_sig_ok
  /\ call.out.val.buyer_sig_ok = Bool(FALSE)

\* the envelope carries the seller's and the buyer's own signatures of the
\* hash_T protect computed
HonestlyCountersigned(e) ==
  /\ e.hash_T = prot.hash_T
  /\ e.sig_seller = prot.sig_seller
  /\ e.sig_buyer
       = b64e(<< <<"sig", buyer.signing_public[2], b64d(prot.hash_T).val>> >>)

\* the fields check does not read
UnreadFields == {"ciphertext", "tag", "nonce", "ek_map"}

\* C11: check never decrypts.  After the ciphertext, tag, nonce or ek_map of an
\* honestly countersigned envelope is replaced, check with the honest keys
\* still reports both signatures true, and unprotect fails for every party.
C11_CheckNeverDecrypts ==
  \A f \in UnreadFields :
    (Replaced(f) /\ HonestlyCountersigned(env)) =>
      /\ ( /\ call.op = "check"
           /\ call.spub = seller.signing_public
           /\ call.bpub = buyer.signing_public )
         => /\ call.out.ok
            /\ call.out.val.seller_sig_ok
            /\ call.out.val.buyer_sig_ok = Bool(TRUE)
      /\ call.op = "unprotect" => ~call.out.ok

\* field f of the envelope no longer decodes to the bytes protect put there
\* (for ek_map: no entry decodes to a wrapped key protect put there)
DecodesDifferently(f) ==
  IF f = "ek_map"
  THEN \A n \in DOMAIN env.ek_map : \A o \in DOMAIN prot.ek_map :
         b64d(env.ek_map[n]) # b64d(prot.ek_map[o])
  ELSE b64d(env[f]) # b64d(prot[f])

\* What holds of the code in C11's place: the same, for a replacement that
\* does not decode to the bytes it replaces.
C11_CheckIgnoresPayload ==
  \A f \in UnreadFields :
    (Replaced(f) /\ HonestlyCountersigned(env)) =>
      /\ ( /\ call.op = "check"
           /\ call.spub = seller.signing_public
           /\ call.bpub = buyer.signing_public )
         => /\ call.out.ok
            /\ call.out.val.seller_sig_ok
            /\ call.out.val.buyer_sig_ok = Bool(TRUE)
      /\ (call.op = "unprotect" /\ DecodesDifferently(f)) => ~call.out.ok

\* C12: check never raises.  Every call of check returns a report, whatever
\* the envelope and the keys it is given.
C12_CheckNeverRaises ==
  call.op = "check" => call.out.ok

\* record i of the list check was given is the record its issuer signed
AsIssued(c, i) == c.recs[i] = issued.records[i]

\* the directory check was given registers the issuer's own key under the
\* name the issuer signed with
KnowsIssuer(dir) == issued.by \in DOMAIN dir /\ dir[issued.by] = issued.key

\* the directory registers some key under the name record rec was issued by
HasKeyFor(dir, rec) ==
  /\ Get(rec, "from_company") # None
  /\ Get(rec, "from_company")[2] \in DOMAIN dir

\* C13: the share signature binds the whole record.  With the issuer's key
\* registered, check reports valid = true for a record as create_share_record
\* or create_layer_share_records returned it, and valid = false for a record
\* one of whose fields other than sig_share was changed, added or removed; it
\* reports valid = false when another company's key is registered.
C13_ShareSignatureBindsRecord ==
  (call.op = "check" /\ call.recs # <<>>) =>
    /\ call.out.ok
    /\ \A i \in DOMAIN call.recs :
         LET valid == call.out.val.shares[i].valid
         IN  /\ (AsIssued(call, i) /\ KnowsIssuer(call.dir)) => valid
             /\ ( /\ ~AsIssued(call, i)
                  /\ call.recs[i].sig_share = issued.records[i].sig_share ) => ~valid
             /\ call.dir = WrongDirectory => ~valid

C13_Witness ==
  /\ call.op = "check"
  /\ KnowsIssuer(call.dir)
  /\ Len(call.recs) = 2
  /\ ~AsIssued(call, 1) /\ AsIssued(call, 2)
  /\ "timestamp" \notin DOMAIN call.recs[1]
  /\ call.out.ok
  /\ ~call.out.val.shares[1].valid
  /\ call.out.val.shares[2].valid

\* C14: a share whose issuer has no registered key.  When from_company of a
\* record has no entry in share_public_keys, or no share_public_keys is given,
\* check does not raise, reports valid = false for that record, and the report
\* has one entry per record, in the order of the records.
C14_UnknownIssuer ==
  ( /\ call.op = "check"
    /\ \E i \in DOMAIN call.recs : ~HasKeyFor(call.dir, call.recs[i]) )
  => /\ call.out.ok
     /\ Len(call.out.val.shares) = Len(call.recs)
     /\ \A i \in DOMAIN call.recs :
          /\ call.out.val.shares[i].id = Get(call.recs[i], "id")
          /\ ~HasKeyFor(call.dir, call.recs[i]) => ~call.out.val.shares[i].valid

C14_Witness ==
  /\ call.op = "check"
  /\ call.dir = Directory
  /\ Len(call.recs) = 2
  /\ call.recs[1].from_company = S("mallory")
  /\ call.recs[1].id # call.recs[2].id
  /\ call.out.ok
  /\ ~call.out.val.shares[1].valid
  /\ call.out.val.shares[2].valid

\* the layer record rec names exists in envelope e and has the hash rec carries
LayerHashMatches(e, rec) ==
  /\ rec.section[2] \in DOMAIN LayersOf(e)
  /\ LayersOf(e)[rec.section[2]].hash_T = Get(rec, "layer_hash")

\* C15: layer hash binding in check.  For every share record that carries a
\* section, the entry check reports has layer_hash_ok, true exactly when the
\* envelope has that layer and the layer's hash_T is the record's layer_hash,
\* whether or not the record's signature can be verified.
C15_LayerHashOk ==
  (call.op = "check" /\ call.out.ok) =>
    \A i \in DOMAIN call.recs :
      "section" \in DOMAIN call.recs[i] =>
        /\ "layer_hash_ok" \in DOMAIN call.out.val.shares[i]
        /\ call.out.val.shares[i].layer_hash_ok
             = LayerHashMatches(call.in, call.recs[i])

\* What holds of the code in C15's place: the same, for a section whose name
\* is not the empty string.
C15_LayerHashOkNamedSection ==
  (call.op = "check" /\ call.out.ok) =>
    \A i \in DOMAIN call.recs :
      ("section" \in DOMAIN call.recs[i] /\ call.recs[i].section # S("")) =>
        /\ "layer_hash_ok" \in DOMAIN call.out.val.shares[i]
        /\ call.out.val.shares[i].layer_hash_ok
             = LayerHashMatches(call.in, call.recs[i])

\* C16: unprotect validates the share record's tx_id.  Whatever the envelope's
\* tx_id, unprotect given a share record with another tx_id fails at the
\* selection of the key and returns no plaintext.
C16_WrongShareTx ==
  ( /\ call.op = "unprotect"
    /\ call.share # NoDict
    /\ Get(call.share, "tx_id") # call.in.tx_id )
  => (~call.out.ok /\ call.out.err = "KeyError" /\ call.out.val = None)

\* What holds of the code in C16's place: the same, for an envelope whose
\* tx_id is not the empty string.
C16_WrongShareTxNamed ==
  ( /\ call.op = "unprotect"
    /\ call.share # NoDict
    /\ call.in.tx_id # S("")
    /\ Get(call.share, "tx_id") # call.in.tx_id )
  => (~call.out.ok /\ call.out.err = "KeyError" /\ call.out.val = None)

\* C17: unprotect rejects a share record that carries a section, whatever key
\* its ek_to wraps: it fails and never returns the parent document.
C17_SectionShareRejected ==
  ( /\ call.op = "unprotect"
    /\ call.share # NoDict
    /\ "section" \in DOMAIN call.share )
  => ~call.out.ok

\* What holds of the code in C17's place: a record that was issued for a
\* layer, whatever was done to its fields except ek_to, does not open the
\* parent envelope.
C17_LayerKeyDoesNotOpenParent ==
  ( /\ call.op = "unprotect"
    /\ call.share # NoDict
    /\ issued.kind = "layer" )
  => ~call.out.ok

\* C18: unprotect_layer validates the share record.  Given a share record
\* whose section is not the requested one (a full-transaction record has
\* none) or whose tx_id is not the envelope's, it fails and returns no
\* plaintext.
C18_LayerShareValidated ==
  ( /\ call.op = "unprotect_layer"
    /\ call.share # NoDict
    /\ \/ Get(call.share, "section") # S(call.section)
       \/ Get(call.share, "tx_id") # call.in.tx_id )
  => (~call.out.ok /\ call.out.val = None)

\* What holds of the code in C18's place: the same, for a section and a
\* tx_id that are not the empty string.
C18_LayerShareValidatedNamed ==
  ( /\ call.op = "unprotect_layer"
    /\ call.share # NoDict
    /\ \/ call.section # "" /\ Get(call.share, "section") # S(call.section)
       \/ call.in.tx_id # S("") /\ Get(call.share, "tx_id") # call.in.tx_id )
  => (~call.out.ok /\ call.out.val = None)

\* C19: no key for the company.  unprotect without a share record, and
\* create_share_record, fail with a no-key error when the company named has no
\* entry in ek_map, whatever keys the caller holds, and return nothing.
C19_NoKeyForCompany ==
  /\ ( /\ call.op = "unprotect"
       /\ call.share = NoDict
       /\ call.name \notin DOMAIN call.in.ek_map )
     => (~call.out.ok /\ call.out.err = "KeyError" /\ call.out.val = None)
  /\ ( /\ call.op = "create_share_record"
       /\ call.holder.name \notin DOMAIN call.in.ek_map )
     => (~call.out.ok /\ call.out.err = "KeyError" /\ call.out.val = None)

C19_Witness ==
  /\ call.op = "unprotect"
  /\ call.share = NoDict
  /\ call.who = buyer
  /\ call.name = "auditor"
  /\ call.name \notin DOMAIN call.in.ek_map
  /\ ~call.out.ok /\ call.out.err = "KeyError"

\* C20: unprotect_layer returns the slice only.  A successful unprotect_layer
\* on a section, by the seller, the buyer or the holder of a share record,
\* returns exactly the fields the layering lists for that section, with the
\* document's values.
C20_LayerSliceOnly ==
  (call.op = "unprotect_layer" /\ call.out.ok) =>
    /\ call.section \in DOMAIN layers
    /\ DOMAIN call.out.val
         = {layers[call.section][i] : i \in DOMAIN layers[call.section]}
    /\ \A f \in DOMAIN call.out.val : call.out.val[f] = document[f]

C20_Witness ==
  /\ call.op = "unprotect_layer"
  /\ call.who = Auditor
  /\ call.share # NoDict
  /\ call.section = "logistics"
  /\ call.out.ok
  /\ DOMAIN call.out.val = {"route"}
  /\ "amount" \in DOMAIN document
  /\ call.out.val.route = document.route

\* some section of the layering names a field the document does not have
MissingFields ==
  \E s \in DOMAIN layers : \E i \in DOMAIN layers[s] : layers[s][i] \notin DOMAIN document

\* C21: missing fields.  protect_with_layers fails with a missing-fields error
\* when a field named in a section is absent from the document, and then
\* returns no envelope; otherwise the envelope it returns has a layer for
\* exactly the sections requested.
C21_MissingFields ==
  call.op = "protect" =>
    /\ MissingFields =>
         /\ ~call.out.ok /\ call.out.err = "KeyError" /\ call.out.val = None
         /\ pc = "raised" /\ env = NoDict /\ prot = NoDict
    /\ ~MissingFields =>
         /\ call.out.ok
         /\ DOMAIN LayersOf(call.out.val) = DOMAIN layers

C21_Witness ==
  /\ call.op = "protect"
  /\ layers = TwoLayers
  /\ "amount" \in DOMAIN document
  /\ "route" \notin DOMAIN document
  /\ ~call.out.ok /\ call.out.err = "KeyError"
  /\ env = NoDict

\* the symmetric key of envelope e, as the buyer unwraps it
SymKeyOf(e) ==
  unwrap_key(buyer.encryption_private, b64d(e.ek_map[NameOr(buyer, "buyer")]).val).val

\* C22: layer key independence.  The parent envelope and its layers are all
\* encrypted under different keys; a share record issued for one section opens
\* neither the parent envelope nor another section, and a share record issued
\* for the full transaction opens no layer.
C22_LayerKeyIndependence ==
  /\ (call.op = "protect" /\ call.out.ok) =>
       \A s \in DOMAIN LayersOf(call.out.val) :
         /\ SymKeyOf(LayersOf(call.out.val)[s]) # SymKeyOf(call.out.val)
         /\ \A o \in DOMAIN LayersOf(call.out.val) \ {s} :
              SymKeyOf(LayersOf(call.out.val)[s]) # SymKeyOf(LayersOf(call.out.val)[o])
  /\ (call.op = "unprotect" /\ call.share # NoDict /\ issued.kind = "layer")
       => ~call.out.ok
  /\ (call.op = "unprotect_layer" /\ call.share # NoDict /\ issued.kind = "full")
       => ~call.out.ok
  /\ (call.op = "unprotect_layer" /\ call.share # NoDict /\ issued.kind = "layer")
       => \A i \in DOMAIN issued.records :
            ( /\ call.share.ek_to = issued.records[i].ek_to
              /\ call.section # issued.sections[i] ) => ~call.out.ok

C22_Witness ==
  /\ call.op = "unprotect"
  /\ issued.kind = "layer"
  /\ call.share = issued.records[1]
  /\ DOMAIN LayersOf(call.in) = {"pricing", "logistics"}
  /\ SymKeyOf(call.in.layers.pricing) # SymKeyOf(call.in)
  /\ ~call.out.ok /\ call.out.err = "InvalidTag"

\* what the layers of envelope e must be for the layering lay
LayerInvariants(e, lay) ==
  /\ DOMAIN LayersOf(e) = DOMAIN lay
  /\ \A s \in DOMAIN LayersOf(e) :
       LET l == LayersOf(e)[s]
       IN  /\ l.tx_id = e.tx_id
           /\ l.meta.section = s
           /\ l.meta.fields = lay[s]
           /\ "layers" \notin DOMAIN l
           /\ l.sig_buyer = None

\* C23: every layer envelope protect_with_layers produces has the parent's
\* tx_id, its section name in meta.section, the requested field list in
\* meta.fields, no nested layers and no sig_buyer; buyer_sign on the parent
\* returns the layers as they were, so the same holds after countersigning.
C23_LayerEnvelopeInvariants ==
  /\ (call.op = "protect" /\ call.out.ok) => LayerInvariants(call.out.val, layers)
  /\ (call.op = "buyer_sign" /\ call.out.ok) =>
       /\ LayersOf(call.out.val) = LayersOf(call.in)
       /\ LayerInvariants(call.out.val, layers)
       /\ call.out.val.sig_buyer # None

C23_Witness ==
  /\ call.op = "buyer_sign" /\ call.out.ok
  /\ layers = TwoLayers
  /\ call.out.val.sig_buyer # None
  /\ call.out.val.layers.pricing.sig_buyer = None
  /\ call.out.val.layers.logistics.tx_id = call.out.val.tx_id
  /\ call.out.val.layers.pricing.meta.fields = <<"amount">>

\* C24: create_layer_share_records returns one record per requested section,
\* in request order, each with the envelope's tx_id, that section, the layer's
\* hash_T as layer_hash and an ek_to wrapping the layer's symmetric key for the
\* recipient; with the record the recipient's unprotect_layer on that section
\* returns the slice the buyer obtains, which is the slice of the document.
C24_LayerShareRecords ==
  (call.op = "create_layer_share_records" /\ call.out.ok) =>
    /\ Len(call.out.val) = Len(call.sections)
    /\ \A i \in DOMAIN call.sections :
         LET rec == call.out.val[i]
             s == call.sections[i]
             layer == LayersOf(call.in)[s]
             got == unprotect_layer(call.in, Auditor, Auditor.name, s, rec)
         IN  /\ rec.tx_id = call.in.tx_id
             /\ rec.section = S(s)
             /\ rec.layer_hash = layer.hash_T
             /\ unwrap_key(Auditor.encryption_private, b64d(rec.ek_to).val)
                  = Ok(SymKeyOf(layer))
             /\ got.ok
             /\ got = unprotect_layer(call.in, buyer, NameOr(buyer, "buyer"), s, NoDict)
             /\ got.val = slice_document(document, layers[s]).val

C24_Witness ==
  /\ call.op = "create_layer_share_records" /\ call.out.ok
  /\ call.sections = <<"pricing", "logistics">>
  /\ Len(call.out.val) = 2
  /\ call.out.val[1].section = S("pricing")
  /\ call.out.val[2].section = S("logistics")
  /\ call.out.val[2].layer_hash = call.in.layers.logistics.hash_T
  /\ unprotect_layer(call.in, Auditor, Auditor.name, "logistics", call.out.val[2]).ok

\* C25: section existence is a precondition.  unprotect_layer raises KeyError
\* when the section is not among the envelope's layers (an envelope without
\* layers included); create_layer_share_records raises KeyError when any of the
\* requested sections is missing and then issues no record, not even for the
\* requested sections that exist.
C25_SectionExistence ==
  /\ (call.op = "unprotect_layer" /\ call.section \notin DOMAIN LayersOf(call.in))
       => call.out = Err("KeyError")
  /\ ( /\ call.op = "create_layer_share_records"
       /\ \E i \in DOMAIN call.sections :
            call.sections[i] \notin DOMAIN LayersOf(call.in) )
       => /\ call.out = Err("KeyError")
          /\ call.out.val = None
          /\ \A i \in DOMAIN issued.records : issued.records[i].id[2][1] # nshare

C25_Witness ==
  /\ call.op = "create_layer_share_records"
  /\ call.sections = <<"pricing", "logistics">>
  /\ DOMAIN LayersOf(call.in) = {"", "pricing"}
  /\ call.holder = buyer
  /\ call.out = Err("KeyError")
  /\ shares = <<>>

\* C26: protect sets tx_id to document["id"] when the id is present and is a
\* string; when the id is absent or is not a string, tx_id is a freshly drawn
\* random identifier (a non-string id is not turned into a string).
C26_TxIdFromId ==
  (call.op = "protect" /\ call.out.ok) =>
    IF "id" \in DOMAIN document /\ document.id[1] = "str"
    THEN call.out.val.tx_id = S(document.id[2])
    ELSE call.out.val.tx_id[1] = "uuid"

\* What holds of the code in C26's place: tx_id is str(id) whenever the id is
\* present, whatever its type, and a random identifier only when it is absent.
C26_TxIdStrOfId ==
  (call.op = "protect" /\ call.out.ok) =>
    IF "id" \in DOMAIN document
    THEN call.out.val.tx_id = PyStrOf(document.id)
    ELSE call.out.val.tx_id[1] = "uuid"

\* envelope e has an entry for the seller and one for the buyer, and each
\* party's entry unwraps with its private key to the same symmetric key
BothEntries(e) ==
  LET sn == NameOr(seller, "seller")
      bn == NameOr(buyer, "buyer")
  IN  /\ Cardinality(DOMAIN e.ek_map) = 2
      /\ sn \in DOMAIN e.ek_map
      /\ bn \in DOMAIN e.ek_map
      /\ unwrap_key(seller.encryption_private, b64d(e.ek_map[sn]).val).ok
      /\ unwrap_key(buyer.encryption_private, b64d(e.ek_map[bn]).val).ok
      /\ unwrap_key(seller.encryption_private, b64d(e.ek_map[sn]).val)
           = unwrap_key(buyer.encryption_private, b64d(e.ek_map[bn]).val)

\* C27: the ek_map of every envelope protect or protect_with_layers produces
\* (the parent and each layer) has an entry for the seller and an entry for
\* the buyer, each unwrapping with that party's private encryption key to the
\* envelope's symmetric key, whatever names the two identities carry.
C27_EkMapEntries ==
  (call.op = "protect" /\ call.out.ok) =>
    /\ BothEntries(call.out.val)
    /\ \A s \in DOMAIN LayersOf(call.out.val) : BothEntries(LayersOf(call.out.val)[s])

\* What holds of the code in C27's place: the same for a seller and a buyer of
\* different names; under one name there is a single entry, the buyer's.
C27_EkMapEntriesDistinctNames ==
  (call.op = "protect" /\ call.out.ok) =>
    \A e \in {call.out.val}
             \cup {LayersOf(call.out.val)[s] : s \in DOMAIN LayersOf(call.out.val)} :
      IF NameOr(seller, "seller") # NameOr(buyer, "buyer")
      THEN BothEntries(e)
      ELSE /\ DOMAIN e.ek_map = {NameOr(buyer, "buyer")}
           /\ unwrap_key(buyer.encryption_private,
                         b64d(e.ek_map[NameOr(buyer, "buyer")]).val).ok
           /\ ~unwrap_key(seller.encryption_private,
                          b64d(e.ek_map[NameOr(seller, "seller")]).val).ok

\* the envelope the buyer's countersigning of prot gives
Countersigned == buyer_sign(prot, buyer, seller.signing_public).val

\* envelope e is neither what protect returned nor its countersigned copy
Mutated(e) == e # prot /\ e # Countersigned

\* a verifier holding the honest keys, or the buyer decrypting, notices e:
\* check raises or reports a false verdict, or unprotect or unprotect_layer fails
Detected(e) ==
  LET report == check(e, seller.signing_public, buyer.signing_public, <<>>, EmptyDict)
      bn == NameOr(buyer, "buyer")
  IN  \/ ~report.ok
      \/ ~report.val.seller_sig_ok
      \/ report.val.buyer_sig_ok = Bool(FALSE)
      \/ ~unprotect(e, buyer, bn, NoDict).ok
      \/ \E s \in DOMAIN LayersOf(e) : ~unprotect_layer(e, buyer, bn, s, NoDict).ok

\* C29: tamper detection.  Whatever field of a protected envelope is replaced
\* after protect or buyer_sign, for the resulting envelope either check reports
\* a false signature verdict or unprotect or unprotect_layer fails.
C29_TamperDetection ==
  (pc = "protected" /\ Mutated(env)) => Detected(env)

\* the bytes decrypt_aes_gcm is given to open: ciphertext followed by tag
SealedBytes(e) ==
  IF b64d(e.ciphertext).ok /\ b64d(e.tag).ok
  THEN Ok(b64d(e.ciphertext).val \o b64d(e.tag).val)
  ELSE Err("binascii.Error")

\* What holds of the code in C29's place: a replacement is noticed when it
\* changes the bytes that ciphertext followed by tag, nonce, hash_T, sig_seller
\* or the wrapped keys decode to, or puts a non-empty sig_buyer that is not
\* the buyer's.
C29_DecodedMutationDetected ==
  pc = "protected" =>
    /\ SealedBytes(env) # SealedBytes(prot) => Detected(env)
    /\ \A f \in {"nonce", "hash_T", "sig_seller", "ek_map"} :
         DecodesDifferently(f) => Detected(env)
    /\ ( /\ Truthy(env.sig_buyer)
         /\ b64d(env.sig_buyer) # b64d(Countersigned.sig_buyer) ) => Detected(env)

\* C28: the envelope lifecycle is one-way.  No envelope is without sig_seller,
\* and once the envelope the parties hold, or the row the registry stores,
\* carries a sig_buyer, no later step (a further buyer_sign, the registry's
\* buyer_sign endpoint) removes it or replaces it by a different one.
C28_LifecycleOneWay ==
  [][ /\ (env' # NoDict) => Truthy(env'.sig_seller)
      /\ (env # NoDict /\ env.sig_buyer # None) => env'.sig_buyer = env.sig_buyer
      /\ \A t \in DOMAIN db :
           /\ t \in DOMAIN db'
           /\ db'[t].tx_id = db[t].tx_id
           /\ Truthy(db'[t].sig_seller)
           /\ db[t].sig_buyer # None => db'[t].sig_buyer = db[t].sig_buyer ]_vars

\* What holds of the code in C28's place: the same for the envelope the
\* parties hold; a stored row is never deleted, keeps its sig_seller, and once
\* it has a sig_buyer it always has one, though not always the same.
C28_SignatureNeverRemoved ==
  [][ /\ (env' # NoDict) => Truthy(env'.sig_seller)
      /\ (env # NoDict /\ env.sig_buyer # None) => env'.sig_buyer = env.sig_buyer
      /\ \A t \in DOMAIN db :
           /\ t \in DOMAIN db'
           /\ db'[t].tx_id = db[t].tx_id
           /\ db'[t].sig_seller = db[t].sig_seller
           /\ db[t].sig_buyer # None => db'[t].sig_buyer # None ]_vars

\* C30: the registry does not mutate payloads.  For an envelope the registry
\* accepted, GET returns an envelope equal in every field (layers included) to
\* the one sent, with the sig_buyer sent for it since.
C30_RegistryKeepsPayload ==
  (call.op = "get_transaction" /\ call.tx_id \in DOMAIN posted) =>
    /\ call.out.status = 200
    /\ call.out.body = posted[call.tx_id]

\* What holds of the code in C30's place: the ten declared fields come back as
\* they were sent, and nothing else comes back.
C30_RegistryKeepsDeclaredFields ==
  (call.op = "get_transaction" /\ call.tx_id \in DOMAIN posted) =>
    /\ call.out.status = 200
    /\ DOMAIN call.out.body = TxFields
    /\ \A f \in TxFields : call.out.body[f] = posted[call.tx_id][f]

\* C31: the disclosure tracker is an append-only log with uniqueness keyed by
\* id.  Each id appears at most once; a POST with an id already recorded is
\* rejected and leaves the log as it was; no step modifies or removes a
\* recorded disclosure.
C31_AppendOnlyLog ==
  /\ [](\A i, j \in DOMAIN disclosures :
          disclosures[i].id = disclosures[j].id => i = j)
  /\ []( ( /\ call.op = "add_disclosure"
           /\ \E i \in DOMAIN call.before : call.before[i].id = Get(call.body, "id") )
         => (call.out.status # 200 /\ disclosures = call.before) )
  /\ [][ /\ Len(disclosures') >= Len(disclosures)
         /\ \A i \in DOMAIN disclosures : disclosures'[i] = disclosures[i] ]_vars

C31_Witness ==
  /\ call.op = "add_disclosure"
  /\ call.out.status = 400
  /\ Len(disclosures) >= 1
  /\ disclosures = call.before
  /\ \E i \in DOMAIN disclosures :
       /\ disclosures[i].id = call.body.id
       /\ disclosures[i].tx_id # call.body.tx_id

\* the rows of the tracker whose tx_id, and section when one is asked for, match
Matching(table, tx_id, section) ==
  { table[i] : i \in { j \in DOMAIN table :
      /\ table[j].tx_id = tx_id
      /\ (section # None => table[j].section = section) } }

\* C32: disclosure query.  GET /disclosures/{tx_id} returns exactly the
\* recorded disclosures of that tx_id, and with a section parameter exactly
\* those of that tx_id and section; each is returned as it was recorded.
C32_DisclosureQuery ==
  call.op = "list_disclosures" =>
    /\ call.out.status = 200
    /\ { call.out.body[i] : i \in DOMAIN call.out.body }
         = Matching(disclosures, call.tx_id, call.section)
    /\ Len(call.out.body)
         = Cardinality(Matching(disclosures, call.tx_id, call.section))

\* What holds of the code in C32's place: the same, with an empty section
\* parameter counted as no section parameter.
C32_DisclosureQueryTruthy ==
  call.op = "list_disclosures" =>
    LET section == IF Truthy(call.section) THEN call.section ELSE None
    IN  /\ call.out.status = 200
        /\ { call.out.body[i] : i \in DOMAIN call.out.body }
             = Matching(disclosures, call.tx_id, section)
        /\ Len(call.out.body) = Cardinality(Matching(disclosures, call.tx_id, section))

\* the fields of the blob whose text is not the one wrap_key wrote
AlteredFields(c) ==
  IF c.blob[1][1] # "wrapjson" THEN {}
  ELSE {f \in WrapFields : c.blob[1][3][f] # c.sent[1][3][f]}

\* the blob decodes to what wrap_key put in it: the same nonce and ciphertext
\* bytes and the same ephemeral point
DecodesAsSent(c) ==
  /\ c.blob[1][1] = "wrapjson"
  /\ \A f \in WrapFields : b64d(c.blob[1][3][f]).ok
  /\ \A f \in {"nonce", "ciphertext"} :
       b64d(c.blob[1][3][f]).val = b64d(c.sent[1][3][f]).val
  /\ LET raw == b64d(c.blob[1][3].ephemeral_public).val
         was == b64d(c.sent[1][3].ephemeral_public).val
     IN  /\ Len(raw) = 1 /\ raw[1][1] = "x25519-raw"
         /\ raw[1][2] = was[1][2]

\* C33: unwrap_key with the recipient's private key returns the key that was
\* wrapped; with any other private key, or on a blob whose ephemeral_public,
\* nonce or ciphertext field was altered, it fails and returns no key.
C33_WrapRoundTrip ==
  call.op = "unwrap_key" =>
    /\ (call.with = call.to /\ call.blob = call.sent => call.out = Ok(call.key))
    /\ (call.with # call.to => ~call.out.ok)
    /\ (AlteredFields(call) # {} => ~call.out.ok)

\* C33, over what the blob decodes to: unwrap_key returns a key exactly when
\* the private key is the recipient's and the blob decodes to the nonce, the
\* ciphertext and the ephemeral point wrap_key put in it, and the key it
\* returns is then the wrapped one.
C33_WrapRoundTripDecoded ==
  call.op = "unwrap_key" =>
    /\ call.out.ok <=> (call.with = call.to /\ DecodesAsSent(call))
    /\ call.out.ok => call.out.val = call.key

\* C34: the canonical encodings of two documents are equal exactly when the
\* documents denote the same JSON value, whatever the order their keys were
\* inserted in, at every nesting level.
C34_CanonicalStability ==
  call.op = "canonical_bytes" =>
    (call.out_a = call.out_b <=> Denote(call.a) = Denote(call.b))

\* two documents of one value whose keys were inserted in different orders,
\* at the top and inside a list, got one encoding
C34_Witness ==
  /\ call.op = "canonical_bytes"
  /\ call.a # call.b
  /\ Len(call.a[2]) = Len(call.b[2]) /\ Len(call.a[2]) > 1
  /\ call.a[2][1][1] # call.b[2][1][1]
  /\ \E i \in DOMAIN call.a[2] : \E j \in DOMAIN call.b[2] :
       /\ call.a[2][i][1] = "amount" /\ call.b[2][j][1] = "amount"
       /\ call.a[2][i][2][1] = "list" /\ call.a[2][i][2] # call.b[2][j][2]
  /\ Denote(call.a) = Denote(call.b)
  /\ call.out_a = call.out_b

\* the requests that were answered 200 for a tx_id
Accepted(tx_id) ==
  {i \in DOMAIN reqs : /\ reqs[i].at = "done"
                       /\ reqs[i].resp.status = 200
                       /\ TransactionIn(reqs[i].body).tx_id = tx_id}

\* C35: after any interleaving of POST /transactions requests the store holds
\* at most one transaction per tx_id, the first one committed: a stored row
\* is the payload of the one request that was answered 200 for its tx_id,
\* every other request for that tx_id is rejected, and no step changes or
\* removes a stored row.
C35_RegistryUniqueness ==
  /\ [](\A i, j \in DOMAIN db : db[i].tx_id = db[j].tx_id => i = j)
  /\ [](\A i \in DOMAIN db :
          /\ Cardinality(Accepted(db[i].tx_id)) = 1
          /\ \A r \in Accepted(db[i].tx_id) :
               db[i] = TransactionRecord(TransactionIn(reqs[r].body)))
  /\ [][ \A i \in DOMAIN reqs :
           ( /\ reqs[i].at # "done" /\ reqs'[i].at = "done"
             /\ RowsOf(db, TransactionIn(reqs[i].body).tx_id) # <<>> )
           => (reqs'[i].resp.status \in {400, 500} /\ db' = db) ]_vars
  /\ [][ \A i \in DOMAIN db : i \in DOMAIN db' /\ db'[i] = db[i] ]_vars

\* two requests for one tx_id with different payloads both passed the query
\* before either committed; one was stored, the other was answered 500
C35_Witness ==
  /\ Len(reqs) >= 2
  /\ reqs[1].at = "done" /\ reqs[2].at = "done"
  /\ TransactionIn(reqs[1].body).tx_id = TransactionIn(reqs[2].body).tx_id
  /\ reqs[1].body # reqs[2].body
  /\ reqs[1].resp.status = 500 /\ reqs[2].resp.status = 200
  /\ Len(RowsOf(db, TransactionIn(reqs[1].body).tx_id)) = 1
  /\ db[1] = TransactionRecord(TransactionIn(reqs[2].body))

\* C36: shares are keyed by (tx_id, id).  A share is stored only if the
\* transaction of the path exists (404 otherwise); every stored share
\* references an existing transaction; and a stored share is returned by
\* GET /transactions/{t}/shares exactly for t the tx_id of the path it was
\* posted to, with every field it was posted with.
C36_SharesKeyedByPath ==
  /\ ( call.op = "add_share_record" /\ RowsOf(db, call.tx_id) = <<>> )
       => (call.out.status \in {404, 422} /\ sharetab.rows = call.before)
  /\ \A i \in DOMAIN sharetab.rows : RowsOf(db, sharetab.rows[i].tx_id) # <<>>
  /\ call.op = "list_shares" =>
       \A i \in DOMAIN sharetab.rows :
         LET returned == {j \in DOMAIN call.out.body :
                            call.out.body[j].id = sharetab.rows[i].id}
         IN  /\ returned # {} <=> call.tx_id = sharetab.sent[i].path
             /\ \A j \in returned : call.out.body[j] = sharetab.sent[i].body

\* What holds of the code in C36's place: a share is stored only by a request
\* on the path of an existing transaction, under the tx_id of its body, and it
\* is returned for that tx_id with the seven declared fields as posted.
C36_SharesKeyedByBody ==
  /\ ( call.op = "add_share_record" /\ RowsOf(db, call.tx_id) = <<>> )
       => (call.out.status \in {404, 422} /\ sharetab.rows = call.before)
  /\ \A i \in DOMAIN sharetab.rows : RowsOf(db, sharetab.sent[i].path) # <<>>
  /\ call.op = "list_shares" =>
       \A i \in DOMAIN sharetab.rows :
         LET returned == {j \in DOMAIN call.out.body :
                            call.out.body[j].id = sharetab.rows[i].id}
         IN  /\ returned # {} <=> call.tx_id = sharetab.sent[i].body.tx_id
             /\ \A j \in returned :
                  /\ DOMAIN call.out.body[j] = ShareInFields
                  /\ \A f \in ShareInFields :
                       call.out.body[j][f] = sharetab.sent[i].body[f]

\* the number of the key pair a wrapped key was wrapped for; 0 when the text
\* is not a wrapped key
RecipientOf(text) ==
  LET w == b64d(text)
  IN  IF ~w.ok \/ Len(w.val) # 1 THEN 0
      ELSE IF w.val[1][1] # "wrapjson" THEN 0
      ELSE LET ct == b64d(w.val[1][3].ciphertext)
           IN  IF ~ct.ok \/ Len(ct.val) # 1 THEN 0
               ELSE IF ct.val[1][1] # "sealed" THEN 0
               ELSE ct.val[1][2][1][3]

\* the wrapped key a call of unprotect or unprotect_layer selects: the share
\* record's ek_to when a record is presented, else the ek_map entry of the
\* name in the envelope that is opened; None when there is none
SelectedKey(c) ==
  LET e == IF c.op = "unprotect" THEN c.in
           ELSE IF c.section \in DOMAIN LayersOf(c.in) THEN LayersOf(c.in)[c.section]
           ELSE [ek_map |-> EmptyDict]
  IN  IF c.share # NoDict THEN Get(c.share, "ek_to") ELSE Get(e.ek_map, c.name)

\* C37: access follows key possession.  unprotect and unprotect_layer return
\* plaintext only when the caller's private encryption key is the one the
\* selected wrapped key was wrapped for; a party that passes another
\* company's name, or presents a share record addressed to someone else, with
\* its own keys gets a failure.
C37_AccessFollowsKeys ==
  call.op \in {"unprotect", "unprotect_layer"} =>
    /\ call.out.ok => RecipientOf(SelectedKey(call)) = call.who.encryption_private[2]
    /\ (call.share = NoDict /\ call.name # call.who.name) => ~call.out.ok
    /\ (call.share # NoDict /\ call.share.to_company # S(call.who.name)) => ~call.out.ok

\* the buyer, who can open the envelope under its own name, presented a share
\* record addressed to the auditor and was refused
C37_Witness ==
  /\ call.op = "unprotect"
  /\ call.who = buyer
  /\ call.name = buyer.name
  /\ call.share # NoDict
  /\ call.share.to_company = S("auditor")
  /\ RecipientOf(call.share.ek_to) = Auditor.encryption_private[2]
  /\ ~call.out.ok
  /\ unprotect(call.in, buyer, buyer.name, NoDict).ok

\* C38: the valid verdict of a share record is a function of the record and of
\* share_public_keys alone: checked against any other envelope, the same
\* record gets the same verdict; the tx_id of the envelope is not compared
\* with the record's.
C38_VerdictIgnoresEnvelope ==
  (call.op = "check" /\ call.out.ok) =>
    \A e \in EnvelopeChoices :
      LET o == check(e, call.spub, call.bpub, call.recs, call.dir)
      IN  o.ok => \A i \in DOMAIN call.recs :
                    o.val.shares[i].valid = call.out.val.shares[i].valid

\* a section's record, issued for one transaction, was checked against the
\* envelope of another: it is valid, and only layer_hash_ok says it is not of
\* this envelope
C38_Witness ==
  /\ call.op = "check"
  /\ call.out.ok
  /\ call.in = OtherEnvelope
  /\ call.recs # <<>>
  /\ Get(call.recs[1], "tx_id") # call.in.tx_id
  /\ Truthy(Get(call.recs[1], "section"))
  /\ call.out.val.shares[1].valid
  /\ ~call.out.val.shares[1].layer_hash_ok
  /\ check(env, call.spub, call.bpub, call.recs, call.dir).val.shares[1].layer_hash_ok

\* the requests the buyer client has posted
BuyerPosts == {cl.buyer.log[i] : i \in DOMAIN cl.buyer.log}

\* C39: the buyer client posts a buyer signature only after buyer_sign has
\* verified sig_seller of the fetched envelope under the seller's public key;
\* a run on a transaction whose sig_seller does not verify ends without that
\* POST and without posting a share.
C39_BuyerClientVerifiesFirst ==
  /\ BuyerPosts # {} =>
       /\ SellerSigVerifies(cl.buyer.tx, seller.signing_public)
       /\ cl.buyer.signed # NoDict
       /\ cl.buyer.log[1] = "buyer_sign"
  /\ ( cl.buyer.tx # NoDict /\ ~SellerSigVerifies(cl.buyer.tx, seller.signing_public) )
       => /\ BuyerPosts = {}
          /\ cl.buyer.at \in {"fetched", "raised"}
          /\ \A i \in DOMAIN db : db[i].sig_buyer = cl.buyer.tx.sig_buyer
          /\ sharetab = NoShares

\* the registry stored an envelope whose sig_seller is another company's
\* signature over the hash; the buyer client fetched it, opened it, and its
\* run ended at buyer_sign with nothing posted
C39_Witness ==
  /\ cl.buyer.at = "raised"
  /\ cl.buyer.tx # NoDict
  /\ cl.buyer.plain = document
  /\ b64d(cl.buyer.tx.sig_seller).ok
  /\ ~SellerSigVerifies(cl.buyer.tx, seller.signing_public)
  /\ BuyerPosts = {}
  /\ \A i \in DOMAIN db : db[i].sig_buyer = None
  /\ sharetab = NoShares

\* C40: end-to-end workflow through the registry.  When the seller client has
\* stored protect(D), the buyer client has fetched, countersigned and shared
\* with the auditor, and the third-party client runs after that, its check
\* reports seller_sig_ok, buyer_sig_ok and a valid share, and its unprotect
\* yields exactly D; a third-party run that reads the shares before the buyer
\* client has posted one finds no share and obtains no plaintext.
C40_EndToEnd ==
  /\ ( cl.third.after_share /\ cl.third.at \notin {"idle", "fetched"} )
       => /\ cl.third.at = "done"
          /\ cl.third.report.seller_sig_ok = TRUE
          /\ cl.third.report.buyer_sig_ok = Bool(TRUE)
          /\ Len(cl.third.report.shares) = 1
          /\ cl.third.report.shares[1].valid = TRUE
          /\ cl.third.plain = document
  /\ cl.third.at = "done" => cl.third.plain = document
  /\ "share" \notin BuyerPosts
       => /\ cl.third.at \in {"idle", "fetched", "exit"}
          /\ cl.third.report = NoDict
          /\ cl.third.plain = NoDict

\* the three clients ran one after the other and the auditor read the document
C40_Witness ==
  /\ cl.seller = [at |-> "done", status |-> 200]
  /\ cl.buyer.at = "done"
  /\ cl.buyer.log = <<"buyer_sign", "share">>
  /\ cl.third.after_share
  /\ cl.third.at = "done"
  /\ cl.third.report.shares[1].valid
  /\ cl.third.plain = document
  /\ cl.third.tx.sig_buyer = cl.buyer.signed.sig_buyer

=============================================================================
